---- MODULE Spec2Model ----
(***************************************************************************)
(* Batch conversion of coordinates to road references (vegreferanse):      *)
(* the rate limiter, the disk cache, the NVDB v4 lookup client, the worker *)
(* pool of processCoordinatesToVegreferanse and the continuity selector.   *)
(*                                                                         *)
(* Conventions of the model                                                *)
(*  - time is an integer clock; time.Now() reads it, time.Sleep(d) returns *)
(*    at any clock value >= start + d;                                     *)
(*  - a coordinate is an integer number of 1e-7 units, one digit more than *)
(*    the 6 decimals of the cache key, so that distinct coordinates can    *)
(*    share a key;                                                         *)
(*  - a distance (Avstand) is an integer number of centimetres;            *)
(*  - a label (Kortform) is a sequence of one-character strings;           *)
(*  - an input line is the list of its tab-separated fields;               *)
(*  - line indices are 0-based as in the source, sequences are 1-based.    *)
(***************************************************************************)
EXTENDS Integers, Sequences, FiniteSets, Bags, TLC

\* ------------------------------------------------------------------ bounds
MaxLines == 2        \* longest input file (data lines) of the batch
MaxWorkers == 2      \* largest worker count of the batch
MaxTime == 1         \* the clock runs freely up to this value
MaxLookups == 2      \* lookups made by the sequential client
MaxCallers == 3      \* concurrent callers of the rate limiter
MaxCalls == 5        \* Wait calls made in all by the callers of the rate limiter

\* --------------------------------------------------------- configurations
Limits == {1, 2}     \* values of -rate-limit that are tried
TimeFrames == {1, 2} \* values of -rate-time that are tried (clock units)
XColumn == 0         \* -x-column (0-based)
YColumn == 1         \* -y-column (0-based)
maxHistory == 10     \* NewVegreferanseSelector(10)

\* ------------------------------------------------------------ small helpers
max(a, b) == IF a > b THEN a ELSE b

Range(s) == {s[i] : i \in 1..Len(s)}

SeqsUpTo(S, n) == UNION {[1..k -> S] : k \in 0..n}

\* ------------------------------------------------------------------ labels
Digits == {"0", "1", "2", "3", "4", "5", "6", "7", "8", "9"}

LblE18a == <<"E", "1", "8", " ", "S", "1", " ", "m", "1">>
LblE18b == <<"E", "1", "8", " ", "S", "1", " ", "m", "2">>
LblKv1 == <<"K", "v", "1", " ", "S", "2", " ", "m", "5">>
LblE18c == <<"E", "1", "8", " ", "S", "3", " ", "m", "2">>
LblE6 == <<"E", "6", " ", "S", "3", " ", "m", "7">>
LblKv2 == <<"K", "v", "2", " ", "S", "1", " ", "m", "1">>
LblE18 == <<"E", "1", "8">>
LblBlank == <<" ">>
NoLabel == <<>>

\* strings.Fields: the maximal runs of non-space characters
RECURSIVE FieldsFrom(_, _, _)
FieldsFrom(s, i, cur) ==
    IF i > Len(s)
    THEN IF cur = <<>> THEN <<>> ELSE <<cur>>
    ELSE IF s[i] = " "
         THEN IF cur = <<>>
              THEN FieldsFrom(s, i + 1, <<>>)
              ELSE <<cur>> \o FieldsFrom(s, i + 1, <<>>)
         ELSE FieldsFrom(s, i + 1, Append(cur, s[i]))

Fields(s) == FieldsFrom(s, 1, <<>>)

\* extractCategory: the prefix before the first digit, or the whole identifier
RECURSIVE FirstDigit(_, _)
FirstDigit(road, i) ==
    IF i > Len(road) THEN 0
    ELSE IF road[i] \in Digits THEN i
    ELSE FirstDigit(road, i + 1)

\* plausible bug: an identifier without a digit has no category
extractCategoryEmptyWithoutDigit(road) ==
    LET i == FirstDigit(road, 1)
    IN  IF i = 0 THEN <<>> ELSE SubSeq(road, 1, i - 1)

extractCategory(road) ==
    LET i == FirstDigit(road, 1)
    IN  IF i = 0 THEN road ELSE SubSeq(road, 1, i - 1)

\* ---------------------------------------------------------------- selector
\* calculateMatchScore; int(distance * 10) is the truncation of cm / 10
calculateMatchScore(previous, current, distance) ==
    LET prevParts == Fields(previous)
        currParts == Fields(current)
    IN  IF Len(prevParts) < 1 \/ Len(currParts) < 1
        THEN 0
        ELSE LET prevRoad == prevParts[1]
                 currRoad == currParts[1]
                 road == IF prevRoad = currRoad
                         THEN 1000
                         ELSE IF extractCategory(prevRoad) = extractCategory(currRoad)
                              THEN 100
                              ELSE 0
                 section == IF Len(prevParts) > 1 /\ Len(currParts) > 1
                               /\ prevParts[2] = currParts[2]
                            THEN 50
                            ELSE 0
                 distanceAdjustment == distance \div 10
             IN  road + section - distanceAdjustment

\* the scan of SelectBestMatch: <<bestMatch, bestScore>> after candidates i..n,
\* bestMatch 0 standing for the source's -1
RECURSIVE ScanBest(_, _, _, _)
ScanBest(last, matches, i, best) ==
    IF i > Len(matches)
    THEN best
    ELSE LET score == calculateMatchScore(last, matches[i].kortform, matches[i].avstand)
         IN  IF score > best[2]
             THEN ScanBest(last, matches, i + 1, <<i, score>>)
             ELSE ScanBest(last, matches, i + 1, best)

\* plausible bug: without a history the candidate nearest to the point is taken
SelectBestMatchNearest(hist, matches) ==
    IF Len(matches) = 0
    THEN NoLabel
    ELSE IF Len(matches) = 1
    THEN matches[1].kortform
    ELSE IF Len(hist) = 0
    THEN LET i == CHOOSE j \in 1..Len(matches) :
                     /\ \A k \in 1..Len(matches) : matches[j].avstand <= matches[k].avstand
                     /\ \A k \in 1..(j - 1) : matches[k].avstand > matches[j].avstand
         IN  matches[i].kortform
    ELSE LET lastVegreferanse == hist[Len(hist)]
             best == ScanBest(lastVegreferanse, matches, 1, <<0, -1>>)
         IN  IF best[1] >= 1
             THEN matches[best[1]].kortform
             ELSE matches[1].kortform

\* plausible bug: the comparison is made with the oldest entry of the history
SelectBestMatchOldest(hist, matches) ==
    IF Len(matches) = 0
    THEN NoLabel
    ELSE IF Len(matches) = 1 \/ Len(hist) = 0
    THEN matches[1].kortform
    ELSE LET lastVegreferanse == hist[1]
             best == ScanBest(lastVegreferanse, matches, 1, <<0, -1>>)
         IN  IF best[1] >= 1
             THEN matches[best[1]].kortform
             ELSE matches[1].kortform

SelectBestMatch(hist, matches) ==
    IF Len(matches) = 0
    THEN NoLabel
    ELSE IF Len(matches) = 1 \/ Len(hist) = 0
    THEN matches[1].kortform
    ELSE LET lastVegreferanse == hist[Len(hist)]
             best == ScanBest(lastVegreferanse, matches, 1, <<0, -1>>)
         IN  IF best[1] >= 1
             THEN matches[best[1]].kortform
             ELSE matches[1].kortform

\* plausible bug: the history is trimmed one entry too early
AddToHistoryTrimEarly(hist, vegreferanse) ==
    IF vegreferanse = NoLabel
    THEN hist
    ELSE LET h == Append(hist, vegreferanse)
         IN  IF Len(h) >= maxHistory THEN Tail(h) ELSE h

\* plausible bug: the empty label is appended like any other
AddToHistoryKeepEmpty(hist, vegreferanse) ==
    LET h == Append(hist, vegreferanse)
    IN  IF Len(h) > maxHistory THEN Tail(h) ELSE h

AddToHistory(hist, vegreferanse) ==
    IF vegreferanse = NoLabel
    THEN hist
    ELSE LET h == Append(hist, vegreferanse)
         IN  IF Len(h) > maxHistory THEN Tail(h) ELSE h

\* AddToHistory of a selector made by NewVegreferanseSelector(maxH)
AddToHistoryMax(maxH, hist, vegreferanse) ==
    IF vegreferanse = NoLabel
    THEN hist
    ELSE LET h == Append(hist, vegreferanse)
         IN  IF Len(h) > maxH THEN Tail(h) ELSE h

\* the history of a selector made by NewVegreferanseSelector(maxH) after
\* AddToHistory of each of the labels, in order
RECURSIVE HistoryWith(_, _)
HistoryWith(maxH, labels) ==
    IF labels = <<>>
    THEN <<>>
    ELSE AddToHistoryMax(maxH, HistoryWith(maxH, SubSeq(labels, 1, Len(labels) - 1)),
                         labels[Len(labels)])

\* ------------------------------------------------------------- input lines
\* strconv.ParseFloat on the field texts that occur in the input
ParseFloat(s) ==
    CASE s = "0" -> [ok |-> TRUE, v |-> 0]
      [] s = "0.0000004" -> [ok |-> TRUE, v |-> 4]
      [] s = "0.000001" -> [ok |-> TRUE, v |-> 10]
      [] s = "0.000002" -> [ok |-> TRUE, v |-> 20]
      [] s = "0.000003" -> [ok |-> TRUE, v |-> 30]
      [] OTHER -> [ok |-> FALSE, v |-> 0]

LineShort == <<"0">>
LineBadX == <<"abc", "0">>
LineBadY == <<"0", "abc">>
LineK0 == <<"0", "0">>
LineK0b == <<"0.0000004", "0">>
LineK1 == <<"0.000001", "0">>
LineK2 == <<"0.000002", "0">>
LineK3 == <<"0.000003", "0">>
ZeroLine == <<"">>

LineSet == {LineShort, LineBadX, LineBadY, LineK0, LineK0b, LineK1, LineK2, LineK3}

CoordSet == {<<0, 0>>, <<4, 0>>, <<10, 0>>, <<20, 0>>, <<30, 0>>}

\* fmt.Sprintf("%.6f", v): v in 1e-7 units rounded to 1e-6 units, ties to even
Format6(v) ==
    LET q == v \div 10
        r == v % 10
    IN  IF r > 5 \/ (r = 5 /\ q % 2 = 1) THEN q + 1 ELSE q

\* plausible bug: the key keeps too few decimals, so that distinct queries collide
getCacheFilePathCoarse(x, y) == <<Format6(x) \div 10, Format6(y) \div 10>>

\* the "%.6f,%.6f" key that names the cache file of a coordinate pair
getCacheFilePath(x, y) == <<Format6(x), Format6(y)>>

KeySet == {getCacheFilePath(c[1], c[2]) : c \in CoordSet}

\* --------------------------------------------------- matches and JSON texts
Match(label, dist) == [kortform |-> label, avstand |-> dist]

\* an item of V4PositionResponse carries more than a VegreferanseMatch keeps
ApiItem(label, dist) == [kortform |-> label, avstand |-> dist, kommune |-> 301]

ItemToMatch(item) == Match(item.kortform, item.avstand)

ItemsToMatches(items) == [i \in 1..Len(items) |-> ItemToMatch(items[i])]

ItemsK0 == <<ApiItem(LblKv1, 100), ApiItem(LblE18b, 300)>>
ItemsK1 == <<ApiItem(LblE18a, 250)>>
\* an item whose "kortform" is missing or empty
ItemsNoLabel == <<ApiItem(NoLabel, 100)>>

Garbage == [json |-> "garbage", items |-> <<>>]
JsonList(items) == [json |-> "list", items |-> items]

\* json.Unmarshal into a slice
Unmarshal(text) ==
    IF text.json = "list"
    THEN [ok |-> TRUE, items |-> text.items]
    ELSE [ok |-> FALSE, items |-> <<>>]

\* json.Marshal of a slice of matches
Marshal(matches) == JsonList(matches)

\* ------------------------------------------------------------- cache files
FileAbsent == [exists |-> FALSE, readable |-> FALSE, data |-> Garbage]
FileUnreadable == [exists |-> TRUE, readable |-> FALSE, data |-> Garbage]
FileData(text) == [exists |-> TRUE, readable |-> TRUE, data |-> text]

StoredLists == {<<>>, ItemsToMatches(ItemsK0), ItemsToMatches(ItemsK1)}

FileSet == {FileAbsent, FileUnreadable, FileData(Garbage)}
           \cup {FileData(Marshal(m)) : m \in StoredLists}

\* plausible bug: a file that cannot be decoded is served as an empty entry
GetCorruptAsHit(files, x, y) ==
    LET f == files[getCacheFilePath(x, y)]
    IN  IF ~f.exists
        THEN [matches |-> <<>>, found |-> FALSE]
        ELSE IF ~f.readable
        THEN [matches |-> <<>>, found |-> TRUE]
        ELSE LET parsed == Unmarshal(f.data)
             IN  [matches |-> parsed.items, found |-> TRUE]

\* VegreferanseDiskCache.Get
Get(files, x, y) ==
    LET f == files[getCacheFilePath(x, y)]
    IN  IF ~f.exists
        THEN [matches |-> <<>>, found |-> FALSE]
        ELSE IF ~f.readable
        THEN [matches |-> <<>>, found |-> FALSE]
        ELSE LET parsed == Unmarshal(f.data)
             IN  IF ~parsed.ok
                 THEN [matches |-> <<>>, found |-> FALSE]
                 ELSE [matches |-> parsed.items, found |-> TRUE]

\* plausible bug: Set names the file by (y, x), Get by (x, y)
SetSwappedKey(files, x, y, matches, outcome) ==
    LET k == getCacheFilePath(y, x)
    IN  CASE outcome = "written" -> [files EXCEPT ![k] = FileData(Marshal(matches))]
          [] outcome = "partial" -> [files EXCEPT ![k] = FileData(Garbage)]
          [] OTHER -> files

\* the outcomes of VegreferanseDiskCache.Set: written, refused before the file
\* is touched (MkdirAll or open fails), or cut short after truncation
SetOutcomes == {"written", "refused", "partial"}

Set(files, x, y, matches, outcome) ==
    LET k == getCacheFilePath(x, y)
    IN  CASE outcome = "written" -> [files EXCEPT ![k] = FileData(Marshal(matches))]
          [] outcome = "partial" -> [files EXCEPT ![k] = FileData(Garbage)]
          [] OTHER -> files

\* ----------------------------------------------------------------- provider
StatusOK == 200
StatusNotFound == 404

RTransport == [err |-> "transport", status |-> 0, body |-> Garbage]
RRead == [err |-> "read", status |-> StatusOK, body |-> Garbage]
RHttp(status, body) == [err |-> "none", status |-> status, body |-> body]

AllResponses ==
    {RTransport, RRead,
     RHttp(500, Garbage),
     RHttp(StatusNotFound, Garbage),
     RHttp(StatusOK, Garbage),
     RHttp(StatusOK, JsonList(<<>>)),
     RHttp(StatusOK, JsonList(ItemsK0)),
     RHttp(StatusOK, JsonList(ItemsK1))}

\* what the road network holds at the queried (ost, nord), both sent as %.6f
TrueResponse(ost, nord) ==
    CASE <<ost, nord>> = <<0, 0>> -> RHttp(StatusOK, JsonList(ItemsK0))
      [] <<ost, nord>> = <<1, 0>> -> RHttp(StatusOK, JsonList(ItemsK1))
      [] <<ost, nord>> = <<2, 0>> -> RHttp(StatusNotFound, Garbage)
      [] <<ost, nord>> = <<3, 0>> -> RHttp(500, Garbage)
      [] OTHER -> RHttp(StatusOK, JsonList(<<>>))

\* handleErrorResponse: nil only for 404
handleErrorResponse(statusCode) ==
    IF statusCode = StatusNotFound THEN "nil" ELSE "status"

\* plausible bug: 404 is reported like every other status that is not 200
InterpretNotFoundAsError(r) ==
    IF r.err = "transport"
    THEN [matches |-> <<>>, err |-> "request failed", store |-> FALSE]
    ELSE IF r.err = "read"
    THEN [matches |-> <<>>, err |-> "failed to read response body", store |-> FALSE]
    ELSE IF r.status # StatusOK
    THEN [matches |-> <<>>, err |-> "status", store |-> FALSE]
    ELSE LET result == Unmarshal(r.body)
         IN  IF ~result.ok
             THEN [matches |-> <<>>, err |-> "failed to parse response", store |-> FALSE]
             ELSE [matches |-> ItemsToMatches(result.items), err |-> "nil", store |-> TRUE]

\* plausible bug: a failed call leaves an empty entry behind
InterpretStoreOnError(r) ==
    IF r.err = "transport"
    THEN [matches |-> <<>>, err |-> "request failed", store |-> TRUE]
    ELSE IF r.err = "read"
    THEN [matches |-> <<>>, err |-> "failed to read response body", store |-> TRUE]
    ELSE IF r.status # StatusOK
    THEN IF r.status = StatusNotFound
         THEN [matches |-> <<>>, err |-> "nil", store |-> TRUE]
         ELSE [matches |-> <<>>, err |-> handleErrorResponse(r.status), store |-> TRUE]
    ELSE LET result == Unmarshal(r.body)
         IN  IF ~result.ok
             THEN [matches |-> <<>>, err |-> "failed to parse response", store |-> TRUE]
             ELSE [matches |-> ItemsToMatches(result.items), err |-> "nil", store |-> TRUE]

\* GetVegreferanseMatches after executeRequest has returned `r`:
\* the matches and error it returns, and whether it calls diskCache.Set
Interpret(r) ==
    IF r.err = "transport"
    THEN [matches |-> <<>>, err |-> "request failed", store |-> FALSE]
    ELSE IF r.err = "read"
    THEN [matches |-> <<>>, err |-> "failed to read response body", store |-> FALSE]
    ELSE IF r.status # StatusOK
    THEN IF r.status = StatusNotFound
         THEN [matches |-> <<>>, err |-> "nil", store |-> TRUE]
         ELSE [matches |-> <<>>, err |-> handleErrorResponse(r.status), store |-> FALSE]
    ELSE LET result == Unmarshal(r.body)
         IN  IF ~result.ok
             THEN [matches |-> <<>>, err |-> "failed to parse response", store |-> FALSE]
             ELSE IF Len(result.items) = 0
             THEN [matches |-> <<>>, err |-> "nil", store |-> TRUE]
             ELSE [matches |-> ItemsToMatches(result.items), err |-> "nil", store |-> TRUE]

\* ----------------------------------------------------------------- results
NilErr == <<>>
Err(msg) == <<msg>>
Wrap(prefix, err) == <<prefix>> \o err

Task(i, line) == [lineIdx |-> i, line |-> line]

Result(i, line, veg, matches, err) ==
    [lineIdx |-> i, line |-> line, vegreferanse |-> veg, matches |-> matches, err |-> err]

ZeroResult == Result(0, ZeroLine, NoLabel, <<>>, NilErr)
ZeroTask == Task(0, ZeroLine)

\* results[result.lineIdx] = result, for the results in arrival order
RECURSIVE Place(_, _)
Place(slots, arrived) ==
    IF arrived = <<>>
    THEN slots
    ELSE Place([slots EXCEPT ![Head(arrived).lineIdx + 1] = Head(arrived)], Tail(arrived))

\* sort.Slice(results, lineIdx less): insertion of each element after the
\* elements that are not greater
RECURSIVE InsertByIdx(_, _)
InsertByIdx(sorted, r) ==
    IF sorted = <<>>
    THEN <<r>>
    ELSE IF r.lineIdx < Head(sorted).lineIdx
         THEN <<r>> \o sorted
         ELSE <<Head(sorted)>> \o InsertByIdx(Tail(sorted), r)

RECURSIVE SortByLineIdx(_)
SortByLineIdx(rs) ==
    IF rs = <<>>
    THEN <<>>
    ELSE InsertByIdx(SortByLineIdx(SubSeq(rs, 1, Len(rs) - 1)), rs[Len(rs)])

\* -------------------------------------------------------------------- state
Procs == 1..max(MaxWorkers, MaxCallers)

VARIABLES
    mode,            \* which program runs: "batch", "reverse" (the batch in
                     \* vegref_to_coord mode), "client", "limiter", "cache"
                     \* (calls on the disk cache alone), or the
                     \* selector alone: "selector", "history"
    lines,           \* the data lines read from the input file
    workers,         \* config.Workers
    cacheEnabled,    \* api.diskCache != nil
    stable,          \* the provider's answer depends on the query alone
    limit,           \* RateLimiter.limit
    timeFrame,       \* RateLimiter.timeFrame
    calls,           \* RateLimiter.calls
    mu,              \* RateLimiter.mu: 0 when free, else the holder
    clock,           \* the wall clock
    cache,           \* the cache directory: key -> file
    taskChannel,     \* buffered channel of tasks
    taskClosed,      \* close(taskChannel) has run
    resultChannel,   \* buffered channel of results
    wg,              \* sync.WaitGroup counter
    spawned,         \* worker goroutines started
    queued,          \* tasks sent
    mainPc,          \* the coordinator: "open", "run", "select", "done", "returned"
    results,         \* the result slice returned by the batch function
    selIdx,          \* loop index of applyVegreferanseSelector
    history,         \* VegreferanseSelector.history
    pc,              \* per goroutine: position
    cur,             \* per goroutine: the task being processed
    coord,           \* per goroutine: (x, y) of the lookup
    wakeAt,          \* per goroutine: earliest return of time.Sleep
    ret,             \* per goroutine: what GetVegreferanseMatches returns
    look,            \* observation, per goroutine: the course of the lookup
    issued,          \* observation: bag of the keys of the external calls of the lookups
    issuedAt,        \* observation: bag of the times at which the limiter's callers
                     \* issued their requests (apiClient.Do)
    answers,         \* observation: per line index, the provider's answer to its lookup
    admitted,        \* observation: every timestamp Wait has appended
    done,            \* per goroutine: lookups completed (sequential client)
    trace,           \* observation: per key, the last lookup the sequential client completed
    sel,             \* observation: the selector operation in progress, its inputs and
                     \* its result
    added,           \* observation: the non-empty labels passed to AddToHistory, in order
    output,          \* the output file
    fileErr,         \* what processFile returns
    cacheDir,        \* the cache directory exists
    cacheOp          \* observation: the last call made on the disk cache alone

vars == <<mode, lines, workers, cacheEnabled, stable, limit, timeFrame, calls, mu,
          clock, cache, taskChannel, taskClosed, resultChannel, wg, spawned,
          queued, mainPc, results, selIdx, history, pc, cur, coord, wakeAt, ret,
          look, issued, issuedAt, answers, admitted, done, trace, sel, added,
          output, fileErr, cacheDir, cacheOp>>

configVars == <<mode, lines, workers, cacheEnabled, stable, limit, timeFrame>>
batchVars == <<taskChannel, taskClosed, resultChannel, wg, spawned, queued, mainPc,
               results, selIdx, history, cur>>
limiterVars == <<calls, mu, admitted>>
issueVars == <<issued, issuedAt, answers>>
clientVars == <<done, trace>>
selectorVars == <<sel, added>>
fileVars == <<output, fileErr>>
dirVars == <<cacheDir, cacheOp>>

NoRet == [matches |-> <<>>, err |-> NilErr]
EmptyCache == [k \in KeySet |-> FileAbsent]
NoAnswer == [err |-> "unasked", status |-> 0, body |-> Garbage]
NoAnswers == [i \in 0..(MaxLines - 1) |-> NoAnswer]
NoTrace == [k \in KeySet |-> [seen |-> FALSE, found |-> FALSE, ext |-> 0, set |-> "none",
                               ret |-> NoRet]]

\* what is observed of one lookup: the cache and the limiter log when it began,
\* whether Get found the entry, the provider's answer and the outcome of Set
NoLook == [cache |-> EmptyCache, calls |-> <<>>, found |-> FALSE, waits |-> 0,
           ext |-> 0, resp |-> RTransport, set |-> "none"]

\* the output file before os.Create
NoFile == [exists |-> FALSE, header |-> <<>>, rows |-> <<>>]

\* no call has been made on the disk cache alone; `cleared` says that Clear
\* has run and Set has not since, `prev` is the call before this one
NoCacheOp == [op |-> "none", key |-> <<0, 0>>, matches |-> <<>>, found |-> FALSE,
              outcome |-> "none", count |-> 0, size |-> 0, err |-> NilErr,
              cleared |-> FALSE, n |-> 0,
              prev |-> [op |-> "none", key |-> <<0, 0>>, matches |-> <<>>,
                        outcome |-> "none"]]

\* no selector operation is in progress
NoSel == [op |-> "none", hist |-> <<>>, matches |-> <<>>, previous |-> NoLabel,
          current |-> NoLabel, distance |-> 0, label |-> NoLabel, score |-> 0]

InitCommon ==
    /\ cacheDir = TRUE
    /\ cacheOp = NoCacheOp
    /\ output = NoFile
    /\ fileErr = NilErr
    /\ sel = NoSel
    /\ added = <<>>
    /\ calls = <<>>
    /\ mu = 0
    /\ clock = 0
    /\ taskChannel = <<>>
    /\ taskClosed = FALSE
    /\ resultChannel = <<>>
    /\ wg = 0
    /\ spawned = 0
    /\ queued = 0
    /\ results = <<>>
    /\ selIdx = 0
    /\ history = <<>>
    /\ pc = [w \in Procs |-> "idle"]
    /\ cur = [w \in Procs |-> ZeroTask]
    /\ coord = [w \in Procs |-> <<0, 0>>]
    /\ wakeAt = [w \in Procs |-> 0]
    /\ ret = [w \in Procs |-> NoRet]
    /\ look = [w \in Procs |-> NoLook]
    /\ issued = EmptyBag
    /\ issuedAt = EmptyBag
    /\ answers = NoAnswers
    /\ admitted = <<>>
    /\ done = [w \in Procs |-> 0]
    /\ trace = NoTrace

\* the batch program: processFile in coord_to_vegref mode, readInputFile done
BatchTimeFrame == CHOOSE t \in TimeFrames : \A u \in TimeFrames : u <= t

Init ==
    /\ mode = "batch"
    /\ lines \in SeqsUpTo(LineSet, MaxLines)
    /\ workers \in 0..MaxWorkers
    /\ cacheEnabled \in BOOLEAN
    /\ stable \in BOOLEAN
    /\ limit \in Limits
    /\ timeFrame = BatchTimeFrame
    /\ cache = EmptyCache
    /\ mainPc = "run"
    /\ InitCommon

\* ------------------------------------------------------------- rate limiter
\* the timestamps of the log that are younger than the time frame
FilterCalls(cs, now) == SelectSeq(cs, LAMBDA call : now - call < timeFrame)

\* plausible bug: the sleep is one clock unit short
waitTimeShort(now, oldest) == timeFrame - (now - oldest) - 1

\* waitTime := r.timeFrame - now.Sub(oldest)
waitTime(now, oldest) == timeFrame - (now - oldest)

\* plausible bug: the mutex is not held during the sleep
WaitEnterUnlocked(w) ==
    /\ pc[w] = "wait"
    /\ mu = 0
    /\ LET now == clock
           validCalls == FilterCalls(calls, now)
       IN  IF Len(validCalls) >= limit /\ waitTime(now, validCalls[1]) > 0
           THEN /\ calls' = validCalls
                /\ wakeAt' = [wakeAt EXCEPT ![w] = now + waitTime(now, validCalls[1])]
                /\ pc' = [pc EXCEPT ![w] = "sleep"]
                /\ UNCHANGED <<mu, admitted, look>>
           ELSE /\ calls' = Append(validCalls, now)
                /\ admitted' = Append(admitted, now)
                /\ look' = [look EXCEPT ![w].waits = @ + 1]
                /\ pc' = [pc EXCEPT ![w] = "call"]
                /\ UNCHANGED <<mu, wakeAt>>
    /\ UNCHANGED <<configVars, selectorVars, fileVars, dirVars, batchVars, clientVars, clock, cache, coord, ret, issueVars>>

\* RateLimiter.Wait up to its return or its time.Sleep
WaitEnter(w) ==
    /\ pc[w] = "wait"
    /\ mu = 0
    /\ LET now == clock
           validCalls == FilterCalls(calls, now)
       IN  IF Len(validCalls) >= limit /\ waitTime(now, validCalls[1]) > 0
           THEN /\ calls' = validCalls
                /\ mu' = w
                /\ wakeAt' = [wakeAt EXCEPT ![w] = now + waitTime(now, validCalls[1])]
                /\ pc' = [pc EXCEPT ![w] = "sleep"]
                /\ UNCHANGED <<admitted, look>>
           ELSE /\ calls' = Append(validCalls, now)
                /\ admitted' = Append(admitted, now)
                /\ look' = [look EXCEPT ![w].waits = @ + 1]
                /\ pc' = [pc EXCEPT ![w] = "call"]
                /\ UNCHANGED <<mu, wakeAt>>
    /\ UNCHANGED <<configVars, selectorVars, fileVars, dirVars, batchVars, clientVars, clock, cache, coord, ret, issueVars>>

\* plausible bug: the mutex is not released when Wait returns after a sleep
WaitWakeKeepsLock(w) ==
    /\ pc[w] = "sleep"
    /\ mu = w
    /\ clock >= wakeAt[w]
    /\ LET now == clock
           validCalls == FilterCalls(calls, now)
       IN  /\ calls' = Append(validCalls, now)
           /\ admitted' = Append(admitted, now)
    /\ wakeAt' = [wakeAt EXCEPT ![w] = 0]
    /\ look' = [look EXCEPT ![w].waits = @ + 1]
    /\ pc' = [pc EXCEPT ![w] = "call"]
    /\ UNCHANGED <<configVars, selectorVars, fileVars, dirVars, batchVars, clientVars, clock, cache, coord, ret, issueVars, mu>>

\* plausible bug: the log is not filtered again after the sleep
WaitWakeNoRefilter(w) ==
    /\ pc[w] = "sleep"
    /\ mu = w
    /\ clock >= wakeAt[w]
    /\ LET now == clock
       IN  /\ calls' = Append(calls, now)
           /\ admitted' = Append(admitted, now)
    /\ mu' = 0
    /\ wakeAt' = [wakeAt EXCEPT ![w] = 0]
    /\ look' = [look EXCEPT ![w].waits = @ + 1]
    /\ pc' = [pc EXCEPT ![w] = "call"]
    /\ UNCHANGED <<configVars, selectorVars, fileVars, dirVars, batchVars, clientVars, clock, cache, coord, ret, issueVars>>

\* RateLimiter.Wait from the return of time.Sleep to its own return
WaitWake(w) ==
    /\ pc[w] = "sleep"
    /\ mu = w
    /\ clock >= wakeAt[w]
    /\ LET now == clock
           validCalls == FilterCalls(calls, now)
       IN  /\ calls' = Append(validCalls, now)
           /\ admitted' = Append(admitted, now)
    /\ mu' = 0
    /\ wakeAt' = [wakeAt EXCEPT ![w] = 0]
    /\ look' = [look EXCEPT ![w].waits = @ + 1]
    /\ pc' = [pc EXCEPT ![w] = "call"]
    /\ UNCHANGED <<configVars, selectorVars, fileVars, dirVars, batchVars, clientVars, clock, cache, coord, ret, issueVars>>

\* time passes: freely up to MaxTime, and as far as a sleeper needs
Tick ==
    /\ \/ clock < MaxTime
       \/ \E w \in Procs : pc[w] = "sleep" /\ clock < wakeAt[w]
    /\ clock' = clock + 1
    /\ UNCHANGED <<configVars, selectorVars, fileVars, dirVars, batchVars, limiterVars, clientVars, cache, pc, coord,
                   wakeAt, ret, look, issueVars>>

\* ------------------------------------------------------------ lookup client
\* the answers an unstable provider gives to the batch besides the true one:
\* a transport failure, a server error, an empty list, an item without label
BatchFaults == {RTransport, RHttp(500, Garbage), RHttp(StatusOK, JsonList(<<>>)),
                RHttp(StatusOK, JsonList(ItemsNoLabel))}

ProviderResponses(x, y) ==
    IF stable
    THEN {TrueResponse(Format6(x), Format6(y))}
    ELSE IF mode = "batch"
    THEN {TrueResponse(Format6(x), Format6(y))} \cup BatchFaults
    ELSE AllResponses

\* the (matches, error) pair GetVegreferanseMatches returns on the answer `r`
LookupRet(r) ==
    LET out == Interpret(r)
    IN  [matches |-> out.matches,
         err |-> IF out.err = "nil" THEN NilErr ELSE Err(out.err)]

\* plausible bug: the early return on a cache hit is missing
CacheGetWithoutReturn(w) ==
    /\ pc[w] = "get"
    /\ LET got == Get(cache, coord[w][1], coord[w][2])
       IN  IF cacheEnabled /\ got.found
           THEN /\ ret' = [ret EXCEPT ![w] = [matches |-> got.matches, err |-> NilErr]]
                /\ look' = [look EXCEPT ![w].found = TRUE]
           ELSE UNCHANGED <<ret, look>>
    /\ pc' = [pc EXCEPT ![w] = "wait"]
    /\ UNCHANGED <<configVars, selectorVars, fileVars, dirVars, batchVars, limiterVars, clientVars, clock, cache, coord,
                   wakeAt, issueVars>>

\* GetVegreferanseMatches: the cache check
CacheGet(w) ==
    /\ pc[w] = "get"
    /\ LET got == Get(cache, coord[w][1], coord[w][2])
       IN  IF cacheEnabled /\ got.found
           THEN /\ ret' = [ret EXCEPT ![w] = [matches |-> got.matches, err |-> NilErr]]
                /\ look' = [look EXCEPT ![w].found = TRUE]
                /\ pc' = [pc EXCEPT ![w] = "ret"]
           ELSE /\ pc' = [pc EXCEPT ![w] = "wait"]
                /\ UNCHANGED <<ret, look>>
    /\ UNCHANGED <<configVars, selectorVars, fileVars, dirVars, batchVars, limiterVars, clientVars, clock, cache, coord,
                   wakeAt, issueVars>>

\* plausible bug: a failed request is tried once more
ExternalCallRetries(w) ==
    /\ mode # "limiter"
    /\ pc[w] = "call"
    /\ issued' = issued (+) SetToBag({getCacheFilePath(coord[w][1], coord[w][2])})
    /\ \E r \in ProviderResponses(coord[w][1], coord[w][2]) :
         LET out == Interpret(r)
         IN  /\ ret' = [ret EXCEPT ![w] = LookupRet(r)]
             /\ answers' = IF mode = "batch"
                           THEN [answers EXCEPT ![cur[w].lineIdx] = r]
                           ELSE answers
             /\ IF out.store /\ cacheEnabled
                THEN \E o \in SetOutcomes :
                       /\ cache' = Set(cache, coord[w][1], coord[w][2], out.matches, o)
                       /\ look' = [look EXCEPT ![w].ext = @ + 1, ![w].resp = r,
                                               ![w].set = o]
                ELSE /\ UNCHANGED cache
                     /\ look' = [look EXCEPT ![w].ext = @ + 1, ![w].resp = r]
             /\ pc' = [pc EXCEPT ![w] = IF out.err # "nil" /\ look[w].ext = 0
                                         THEN "wait"
                                         ELSE "ret"]
    /\ UNCHANGED <<configVars, selectorVars, fileVars, dirVars, batchVars, limiterVars, clientVars, clock, coord, wakeAt,
                   issuedAt>>

\* executeRequest after Wait (apiClient.Do, io.ReadAll) and the rest of
\* GetVegreferanseMatches: the status, the parse and the write-through
ExternalCall(w) ==
    /\ mode # "limiter"
    /\ pc[w] = "call"
    /\ issued' = issued (+) SetToBag({getCacheFilePath(coord[w][1], coord[w][2])})
    /\ \E r \in ProviderResponses(coord[w][1], coord[w][2]) :
         LET out == Interpret(r)
         IN  /\ ret' = [ret EXCEPT ![w] = LookupRet(r)]
             /\ answers' = IF mode = "batch"
                           THEN [answers EXCEPT ![cur[w].lineIdx] = r]
                           ELSE answers
             /\ IF out.store /\ cacheEnabled
                THEN \E o \in SetOutcomes :
                       /\ cache' = Set(cache, coord[w][1], coord[w][2], out.matches, o)
                       /\ look' = [look EXCEPT ![w].ext = @ + 1, ![w].resp = r,
                                               ![w].set = o]
                ELSE /\ UNCHANGED cache
                     /\ look' = [look EXCEPT ![w].ext = @ + 1, ![w].resp = r]
    /\ pc' = [pc EXCEPT ![w] = "ret"]
    /\ UNCHANGED <<configVars, selectorVars, fileVars, dirVars, batchVars, limiterVars, clientVars, clock, coord, wakeAt,
                   issuedAt>>

\* --------------------------------------- processCoordinatesToVegreferanse
lookupVars == <<coord, wakeAt, ret, look, issueVars>>

\* what a worker does with a task before the lookup: the failure it reports,
\* or the coordinates it looks up
Parse(line) ==
    IF Len(line) <= max(XColumn, YColumn)
    THEN [ok |-> FALSE, err |-> Err("line doesn't have enough columns for coordinates"),
          x |-> 0, y |-> 0]
    ELSE LET px == ParseFloat(line[XColumn + 1])
             py == ParseFloat(line[YColumn + 1])
         IN  IF ~px.ok
             THEN [ok |-> FALSE, err |-> Err("invalid X coordinate"), x |-> 0, y |-> 0]
             ELSE IF ~py.ok
             THEN [ok |-> FALSE, err |-> Err("invalid Y coordinate"), x |-> 0, y |-> 0]
             ELSE [ok |-> TRUE, err |-> NilErr, x |-> px.v, y |-> py.v]

\* plausible bug: a failed lookup is marked in the value column
LookupResultMarksError(task, r) ==
    IF r.err # NilErr
    THEN Result(task.lineIdx, task.line, <<"E", "R", "R">>, <<>>, Wrap("API error", r.err))
    ELSE Result(task.lineIdx, task.line,
                IF Len(r.matches) > 0 THEN r.matches[1].kortform ELSE NoLabel,
                r.matches, NilErr)

\* the result a worker sends once GetVegreferanseMatches has returned
LookupResult(task, r) ==
    IF r.err # NilErr
    THEN Result(task.lineIdx, task.line, NoLabel, <<>>, Wrap("API error", r.err))
    ELSE Result(task.lineIdx, task.line,
                IF Len(r.matches) > 0 THEN r.matches[1].kortform ELSE NoLabel,
                r.matches, NilErr)

\* the two batch functions start workers and queue tasks the same way
BatchModes == {"batch", "reverse"}

\* the coordinator starts one worker goroutine
StartWorker ==
    /\ mode \in BatchModes
    /\ mainPc = "run"
    /\ spawned < workers
    /\ spawned' = spawned + 1
    /\ wg' = wg + 1
    /\ pc' = [pc EXCEPT ![spawned + 1] = "loop"]
    /\ UNCHANGED <<configVars, selectorVars, fileVars, dirVars, limiterVars, clientVars, lookupVars, clock, cache,
                   taskChannel, taskClosed, resultChannel, queued, mainPc, results,
                   selIdx, history, cur>>

\* plausible bug: the task channel has room for one task only
QueueTaskSmallBuffer ==
    /\ mode = "batch"
    /\ mainPc = "run"
    /\ spawned = workers
    /\ queued < Len(lines)
    /\ Len(taskChannel) < 1
    /\ taskChannel' = Append(taskChannel, Task(queued, lines[queued + 1]))
    /\ queued' = queued + 1
    /\ UNCHANGED <<configVars, selectorVars, fileVars, dirVars, limiterVars, clientVars, lookupVars, clock, cache,
                   taskClosed, resultChannel, wg, spawned, mainPc, results, selIdx,
                   history, cur, pc>>

\* the coordinator sends one task
QueueTask ==
    /\ mode \in BatchModes
    /\ mainPc = "run"
    /\ spawned = workers
    /\ queued < Len(lines)
    /\ taskChannel' = Append(taskChannel, Task(queued, lines[queued + 1]))
    /\ queued' = queued + 1
    /\ UNCHANGED <<configVars, selectorVars, fileVars, dirVars, limiterVars, clientVars, lookupVars, clock, cache,
                   taskClosed, resultChannel, wg, spawned, mainPc, results, selIdx,
                   history, cur, pc>>

\* close(taskChannel)
CloseTasks ==
    /\ mode \in BatchModes
    /\ mainPc = "run"
    /\ spawned = workers
    /\ queued = Len(lines)
    /\ ~taskClosed
    /\ taskClosed' = TRUE
    /\ UNCHANGED <<configVars, selectorVars, fileVars, dirVars, limiterVars, clientVars, lookupVars, clock, cache,
                   taskChannel, resultChannel, wg, spawned, queued, mainPc, results,
                   selIdx, history, cur, pc>>

\* plausible bug: a worker returns after a malformed line instead of continuing
WorkerTakeStopOnError(w) ==
    /\ pc[w] = "loop"
    /\ taskChannel # <<>>
    /\ LET task == Head(taskChannel)
           p == Parse(task.line)
       IN  /\ taskChannel' = Tail(taskChannel)
           /\ IF p.ok
              THEN /\ cur' = [cur EXCEPT ![w] = task]
                   /\ coord' = [coord EXCEPT ![w] = <<p.x, p.y>>]
                   /\ pc' = [pc EXCEPT ![w] = "get"]
                   /\ UNCHANGED <<resultChannel, wg>>
              ELSE /\ resultChannel' = Append(resultChannel,
                           Result(task.lineIdx, task.line, NoLabel, <<>>, p.err))
                   /\ pc' = [pc EXCEPT ![w] = "exit"]
                   /\ wg' = wg - 1
                   /\ UNCHANGED <<cur, coord>>
    /\ UNCHANGED <<configVars, selectorVars, fileVars, dirVars, limiterVars, clientVars, clock, cache, taskClosed,
                   spawned, queued, mainPc, results, selIdx, history, wakeAt, ret,
                   look, issueVars>>

\* plausible bug: a worker reads the head of the task queue without removing it
WorkerTakeKeepsTask(w) ==
    /\ pc[w] = "loop"
    /\ taskChannel # <<>>
    /\ LET task == Head(taskChannel)
           p == Parse(task.line)
       IN  IF p.ok
           THEN /\ cur' = [cur EXCEPT ![w] = task]
                /\ coord' = [coord EXCEPT ![w] = <<p.x, p.y>>]
                /\ pc' = [pc EXCEPT ![w] = "get"]
                /\ UNCHANGED <<resultChannel, taskChannel>>
           ELSE /\ resultChannel' = Append(resultChannel,
                        Result(task.lineIdx, task.line, NoLabel, <<>>, p.err))
                /\ taskChannel' = Tail(taskChannel)
                /\ UNCHANGED <<cur, coord, pc>>
    /\ UNCHANGED <<configVars, selectorVars, fileVars, dirVars, limiterVars, clientVars, clock, cache, taskClosed, wg,
                   spawned, queued, mainPc, results, selIdx, history, wakeAt, ret,
                   look, issueVars>>

\* a worker receives a task; a malformed line is answered at once
WorkerTake(w) ==
    /\ pc[w] = "loop"
    /\ taskChannel # <<>>
    /\ LET task == Head(taskChannel)
           p == Parse(task.line)
       IN  /\ taskChannel' = Tail(taskChannel)
           /\ IF p.ok
              THEN /\ cur' = [cur EXCEPT ![w] = task]
                   /\ coord' = [coord EXCEPT ![w] = <<p.x, p.y>>]
                   /\ pc' = [pc EXCEPT ![w] = "get"]
                   /\ UNCHANGED resultChannel
              ELSE /\ resultChannel' = Append(resultChannel,
                           Result(task.lineIdx, task.line, NoLabel, <<>>, p.err))
                   /\ UNCHANGED <<cur, coord, pc>>
    /\ UNCHANGED <<configVars, selectorVars, fileVars, dirVars, limiterVars, clientVars, clock, cache, taskClosed, wg,
                   spawned, queued, mainPc, results, selIdx, history, wakeAt, ret,
                   look, issueVars>>

\* a worker sends the result of a lookup and is back at the head of its loop
WorkerSend(w) ==
    /\ mode = "batch"
    /\ pc[w] = "ret"
    /\ resultChannel' = Append(resultChannel, LookupResult(cur[w], ret[w]))
    /\ pc' = [pc EXCEPT ![w] = "loop"]
    /\ cur' = [cur EXCEPT ![w] = ZeroTask]
    /\ coord' = [coord EXCEPT ![w] = <<0, 0>>]
    /\ ret' = [ret EXCEPT ![w] = NoRet]
    /\ look' = [look EXCEPT ![w] = NoLook]
    /\ UNCHANGED <<configVars, selectorVars, fileVars, dirVars, limiterVars, clientVars, clock, cache, wakeAt, issueVars,
                   taskChannel, taskClosed, wg, spawned, queued, mainPc, results,
                   selIdx, history>>

\* plausible bug: a worker leaves its loop without wg.Done()
WorkerExitWithoutDone(w) ==
    /\ pc[w] = "loop"
    /\ taskChannel = <<>>
    /\ taskClosed
    /\ pc' = [pc EXCEPT ![w] = "exit"]
    /\ UNCHANGED <<configVars, selectorVars, fileVars, dirVars, limiterVars, clientVars, lookupVars, clock, cache,
                   taskChannel, taskClosed, resultChannel, wg, spawned, queued, mainPc,
                   results, selIdx, history, cur>>

\* a worker finds the task channel closed and drained: wg.Done()
WorkerExit(w) ==
    /\ pc[w] = "loop"
    /\ taskChannel = <<>>
    /\ taskClosed
    /\ wg' = wg - 1
    /\ pc' = [pc EXCEPT ![w] = "exit"]
    /\ UNCHANGED <<configVars, selectorVars, fileVars, dirVars, limiterVars, clientVars, lookupVars, clock, cache,
                   taskChannel, taskClosed, resultChannel, spawned, queued, mainPc,
                   results, selIdx, history, cur>>

\* plausible bug: the results are returned in the order of their arrival
CollectedInArrivalOrder(n, arrived) == arrived

\* plausible bug: the results are collected without wg.Wait()
CollectWithoutWait ==
    /\ mode = "batch"
    /\ mainPc = "run"
    /\ taskClosed
    /\ results' = SortByLineIdx(Place([i \in 1..Len(lines) |-> ZeroResult], resultChannel))
    /\ resultChannel' = <<>>
    /\ mainPc' = "select"
    /\ selIdx' = 0
    /\ history' = <<>>
    /\ UNCHANGED <<configVars, selectorVars, fileVars, dirVars, limiterVars, clientVars, lookupVars, clock, cache,
                   taskChannel, taskClosed, wg, spawned, queued, cur, pc>>

\* wg.Wait() returns; close(resultChannel), the collection loop, the sort
\* and NewVegreferanseSelector(10) of applyVegreferanseSelector
Collected(n, arrived) == SortByLineIdx(Place([i \in 1..n |-> ZeroResult], arrived))

Collect ==
    /\ mode = "batch"
    /\ mainPc = "run"
    /\ taskClosed
    /\ wg = 0
    /\ results' = Collected(Len(lines), resultChannel)
    /\ resultChannel' = <<>>
    /\ mainPc' = "select"
    /\ selIdx' = 0
    /\ history' = <<>>
    /\ UNCHANGED <<configVars, selectorVars, fileVars, dirVars, limiterVars, clientVars, lookupVars, clock, cache,
                   taskChannel, taskClosed, wg, spawned, queued, cur, pc>>

\* plausible bug: a record without candidates is given the label selected last
SelectStepCarryForward ==
    /\ mainPc = "select"
    /\ selIdx < Len(results)
    /\ LET result == results[selIdx + 1]
       IN  IF Len(result.matches) > 0
           THEN LET veg == SelectBestMatch(history, result.matches)
                IN  /\ results' = [results EXCEPT ![selIdx + 1].vegreferanse = veg]
                    /\ history' = AddToHistory(history, veg)
           ELSE IF Len(history) > 0
           THEN /\ results' = [results EXCEPT ![selIdx + 1].vegreferanse = history[Len(history)]]
                /\ history' = AddToHistory(history, history[Len(history)])
           ELSE UNCHANGED <<results, history>>
    /\ selIdx' = selIdx + 1
    /\ UNCHANGED <<configVars, selectorVars, fileVars, dirVars, limiterVars, clientVars, lookupVars, clock, cache,
                   taskChannel, taskClosed, resultChannel, wg, spawned, queued, mainPc,
                   cur, pc>>

\* plausible bug: the history is updated only when there was a choice to make
SelectStepSkipsSingle ==
    /\ mainPc = "select"
    /\ selIdx < Len(results)
    /\ LET result == results[selIdx + 1]
       IN  IF Len(result.matches) > 0
           THEN LET veg == SelectBestMatch(history, result.matches)
                IN  /\ results' = [results EXCEPT ![selIdx + 1].vegreferanse = veg]
                    /\ history' = IF Len(result.matches) > 1
                                  THEN AddToHistory(history, veg)
                                  ELSE history
           ELSE UNCHANGED <<results, history>>
    /\ selIdx' = selIdx + 1
    /\ UNCHANGED <<configVars, selectorVars, fileVars, dirVars, limiterVars, clientVars, lookupVars, clock, cache,
                   taskChannel, taskClosed, resultChannel, wg, spawned, queued, mainPc,
                   cur, pc>>

\* plausible bug: the pass keeps only the selected candidate of a record
SelectStepDropsCandidates ==
    /\ mainPc = "select"
    /\ selIdx < Len(results)
    /\ LET result == results[selIdx + 1]
       IN  IF Len(result.matches) > 0
           THEN LET veg == SelectBestMatch(history, result.matches)
                IN  /\ results' = [results EXCEPT
                                     ![selIdx + 1].vegreferanse = veg,
                                     ![selIdx + 1].matches =
                                         SelectSeq(result.matches,
                                                   LAMBDA m : m.kortform = veg)]
                    /\ history' = AddToHistory(history, veg)
           ELSE UNCHANGED <<results, history>>
    /\ selIdx' = selIdx + 1
    /\ UNCHANGED <<configVars, selectorVars, fileVars, dirVars, limiterVars, clientVars, lookupVars, clock, cache,
                   taskChannel, taskClosed, resultChannel, wg, spawned, queued, mainPc,
                   cur, pc>>

\* one iteration of the loop of applyVegreferanseSelector
SelectStep ==
    /\ mainPc = "select"
    /\ selIdx < Len(results)
    /\ LET result == results[selIdx + 1]
       IN  IF Len(result.matches) > 0
           THEN LET veg == SelectBestMatch(history, result.matches)
                IN  /\ results' = [results EXCEPT ![selIdx + 1].vegreferanse = veg]
                    /\ history' = AddToHistory(history, veg)
           ELSE UNCHANGED <<results, history>>
    /\ selIdx' = selIdx + 1
    /\ UNCHANGED <<configVars, selectorVars, fileVars, dirVars, limiterVars, clientVars, lookupVars, clock, cache,
                   taskChannel, taskClosed, resultChannel, wg, spawned, queued, mainPc,
                   cur, pc>>

\* the loop of applyVegreferanseSelector from record i on, the selector
\* holding the history `hist`
RECURSIVE PassFrom(_, _, _)
PassFrom(hist, rs, i) ==
    IF i > Len(rs)
    THEN rs
    ELSE IF Len(rs[i].matches) > 0
    THEN LET veg == SelectBestMatch(hist, rs[i].matches)
         IN  PassFrom(AddToHistory(hist, veg), [rs EXCEPT ![i].vegreferanse = veg], i + 1)
    ELSE PassFrom(hist, rs, i + 1)

\* plausible bug: the selector is made once and kept from one pass to the next
applyVegreferanseSelectorKeepsSelector(rs) == PassFrom(history, rs, 1)

\* applyVegreferanseSelector(results) as a whole: a new selector, then the loop
applyVegreferanseSelector(rs) == PassFrom(<<>>, rs, 1)

\* applyVegreferanseSelector returns
SelectDone ==
    /\ mainPc = "select"
    /\ selIdx = Len(results)
    /\ mainPc' = "done"
    /\ UNCHANGED <<configVars, selectorVars, fileVars, dirVars, limiterVars, clientVars, lookupVars, clock, cache,
                   taskChannel, taskClosed, resultChannel, wg, spawned, queued, results,
                   selIdx, history, cur, pc>>

Worker(w) ==
    \/ WorkerTake(w)
    \/ CacheGet(w)
    \/ WaitEnter(w)
    \/ WaitWake(w)
    \/ ExternalCall(w)
    \/ WorkerSend(w)
    \/ WorkerExit(w)

Coordinator ==
    \/ StartWorker
    \/ QueueTask
    \/ CloseTasks
    \/ Collect
    \/ SelectStep
    \/ SelectDone

Next ==
    \/ Coordinator
    \/ \E w \in Procs : Worker(w)
    \/ Tick

Spec == Init /\ [][Next]_vars

\* ------------------------------------------------------------ processFile
\* the input file as os.Open and the scanner find it
InputFiles == {"missing", "empty", "narrow", "ok"}

\* the header line of a readable input file, in columns
Header(f) == IF f = "narrow" THEN <<"X">> ELSE <<"X", "Y">>

\* the error readInputFile returns
readInputFile(f) ==
    IF f = "missing"
    THEN Wrap("failed to open input file", Err("open"))
    ELSE IF f = "empty"
    THEN Err("input file is empty")
    ELSE IF XColumn < 0 \/ XColumn >= Len(Header(f))
    THEN Err("column X index is out of range")
    ELSE IF YColumn < 0 \/ YColumn >= Len(Header(f))
    THEN Err("column Y index is out of range")
    ELSE NilErr

\* one line of the output file: result.line + "\t" + result.vegreferanse
OutLine(result) == [line |-> result.line, value |-> result.vegreferanse]

\* the file writeResults leaves behind, and the error it returns
writeResults(created, header, rs) ==
    IF ~created
    THEN [output |-> NoFile, err |-> Wrap("failed to create output file", Err("create"))]
    ELSE LET kept == SelectSeq(rs, LAMBDA result : result.err = NilErr)
         IN  [output |-> [exists |-> TRUE, header |-> header,
                          rows |-> [i \in 1..Len(kept) |-> OutLine(kept[i])]],
              err |-> NilErr]

\* processFile calls readInputFile
ReadInputFile ==
    /\ mode = "batch"
    /\ mainPc = "open"
    /\ \E f \in InputFiles :
          LET err == readInputFile(f)
          IN  IF err # NilErr
              THEN fileErr' = err /\ mainPc' = "returned"
              ELSE fileErr' = fileErr /\ mainPc' = "run"
    /\ UNCHANGED <<configVars, selectorVars, dirVars, limiterVars, clientVars, lookupVars, clock, cache,
                   taskChannel, taskClosed, resultChannel, wg, spawned, queued, results,
                   selIdx, history, cur, pc, output>>

\* processFile extends the header, calls writeResults and returns
WriteResults ==
    /\ mode = "batch"
    /\ mainPc = "done"
    /\ \E created \in BOOLEAN :
          LET w == writeResults(created, Append(Header("ok"), "Vegreferanse"), results)
          IN  /\ output' = w.output
              /\ fileErr' = w.err
    /\ mainPc' = "returned"
    /\ UNCHANGED <<configVars, selectorVars, dirVars, limiterVars, clientVars, lookupVars, clock, cache,
                   taskChannel, taskClosed, resultChannel, wg, spawned, queued, results,
                   selIdx, history, cur, pc>>

\* the lines of the input files of the whole program
FileLines == {LineShort, LineBadX, LineK0, LineK1, LineK3}

\* processFile from its first statement, against a provider that answers
\* each query the same way every time, without disk cache
InitFile ==
    /\ mode = "batch"
    /\ lines \in SeqsUpTo(FileLines, MaxLines)
    /\ workers \in 1..MaxWorkers
    /\ cacheEnabled = FALSE
    /\ stable = TRUE
    /\ limit \in Limits
    /\ timeFrame = BatchTimeFrame
    /\ cache = EmptyCache
    /\ mainPc = "open"
    /\ InitCommon

NextFile ==
    \/ ReadInputFile
    \/ Next
    \/ WriteResults

SpecFile == InitFile /\ [][NextFile]_vars

\* ------------------------------------------- processVegreferanseToCoordinates
VegreferanseColumn == 1      \* -vegreferanse-column (0-based)

RefKnown == "FV7834 S1D1 m11"
RefUnknown == "INVALID_VEGREF"

\* strings.TrimSpace on the field texts that occur in the input
TrimSpace(field) ==
    CASE field = " " -> ""
      [] field = " FV7834 S1D1 m11 " -> RefKnown
      [] OTHER -> field

ReverseLines == {<<"a">>, <<"a", "">>, <<"a", " ">>, <<"a", RefKnown>>,
                 <<"a", " FV7834 S1D1 m11 ">>, <<"a", RefUnknown>>}

\* plausible bug: the column is not trimmed before it is tested
ParseReferenceNoTrim(line) ==
    IF Len(line) <= VegreferanseColumn
    THEN [ok |-> FALSE, err |-> Err("line doesn't have enough columns for vegreferanse"),
          vegreferanse |-> ""]
    ELSE LET vegreferanse == line[VegreferanseColumn + 1]
         IN  IF vegreferanse = ""
             THEN [ok |-> FALSE, err |-> Err("empty vegreferanse"), vegreferanse |-> ""]
             ELSE [ok |-> TRUE, err |-> NilErr, vegreferanse |-> TrimSpace(vegreferanse)]

\* what a worker does with a task before the lookup: the failure it reports,
\* or the reference it looks up
ParseReference(line) ==
    IF Len(line) <= VegreferanseColumn
    THEN [ok |-> FALSE, err |-> Err("line doesn't have enough columns for vegreferanse"),
          vegreferanse |-> ""]
    ELSE LET vegreferanse == TrimSpace(line[VegreferanseColumn + 1])
         IN  IF vegreferanse = ""
             THEN [ok |-> FALSE, err |-> Err("empty vegreferanse"), vegreferanse |-> ""]
             ELSE [ok |-> TRUE, err |-> NilErr, vegreferanse |-> vegreferanse]

\* parseWKTToCoordinate on the geometries that occur in the answers; X and Y
\* in 1e-7 units
WktPoint == "POINT Z (0.000001 0 5)"
WktSet == {"", WktPoint, "POINT(0.0000004 0)", "POINT EMPTY", "POINT (0)",
           "LINESTRING (0 0, 1 1)"}

parseWKTToCoordinate(wkt) ==
    CASE wkt = "" -> [coords |-> <<0, 0>>, err |-> "empty WKT string"]
      [] wkt = WktPoint -> [coords |-> <<10, 0>>, err |-> "nil"]
      [] wkt = "POINT(0.0000004 0)" -> [coords |-> <<4, 0>>, err |-> "nil"]
      [] wkt = "POINT EMPTY" -> [coords |-> <<0, 0>>, err |-> "empty geometry in WKT"]
      [] wkt = "POINT (0)" ->
            [coords |-> <<0, 0>>, err |-> "invalid WKT format, not enough coordinate values"]
      [] OTHER -> [coords |-> <<0, 0>>, err |-> "unrecognized WKT format"]

\* the body of an answer of the batch endpoint: one reference and its geometry
JsonMap(key, wkt) == [json |-> "map", items |-> <<>>, key |-> key, wkt |-> wkt]

\* the answers of the provider to a reference
ReverseResponses(vegreferanse) ==
    {RTransport, RHttp(StatusNotFound, Garbage), RHttp(500, Garbage),
     RHttp(StatusOK, Garbage), RHttp(StatusOK, JsonMap("other", WktPoint))}
    \cup {RHttp(StatusOK, JsonMap(vegreferanse, wkt)) : wkt \in WktSet}

\* the (coordinate, error) pair GetCoordinatesFromVegreferanse returns on the
\* answer `r`
GetCoordinatesFromVegreferanse(vegreferanse, r) ==
    LET fail(msg) == [matches |-> <<>>, err |-> Err(msg), coords |-> <<0, 0>>]
    IN  IF r.err = "transport"
        THEN fail("request failed")
        ELSE IF r.err = "read"
        THEN fail("failed to read response body")
        ELSE IF r.status # StatusOK
        THEN IF r.status = StatusNotFound
             THEN fail("vegreferanse not found")
             ELSE fail(handleErrorResponse(r.status))
        ELSE IF r.body.json # "map"
        THEN fail("failed to parse response")
        ELSE IF r.body.key # vegreferanse
        THEN fail("no data found for vegreferanse")
        ELSE LET c == parseWKTToCoordinate(r.body.wkt)
             IN  IF c.err # "nil"
                 THEN fail(c.err)
                 ELSE [matches |-> <<>>, err |-> NilErr, coords |-> c.coords]

\* the result a worker sends once GetCoordinatesFromVegreferanse has returned:
\* the value is "%.6f\t%.6f" of X and Y
ReverseResult(task, r) ==
    IF r.err # NilErr
    THEN Result(task.lineIdx, task.line, NoLabel, <<>>, Wrap("API error", r.err))
    ELSE Result(task.lineIdx, task.line, <<Format6(r.coords[1]), Format6(r.coords[2])>>,
                <<>>, NilErr)

\* a worker receives a task; a line without reference is answered at once
ReverseTake(w) ==
    /\ mode = "reverse"
    /\ pc[w] = "loop"
    /\ taskChannel # <<>>
    /\ LET task == Head(taskChannel)
           p == ParseReference(task.line)
       IN  /\ taskChannel' = Tail(taskChannel)
           /\ IF p.ok
              THEN /\ cur' = [cur EXCEPT ![w] = task]
                   /\ pc' = [pc EXCEPT ![w] = "wait"]
                   /\ UNCHANGED resultChannel
              ELSE /\ resultChannel' = Append(resultChannel,
                           Result(task.lineIdx, task.line, NoLabel, <<>>, p.err))
                   /\ UNCHANGED <<cur, pc>>
    /\ UNCHANGED <<configVars, selectorVars, fileVars, dirVars, limiterVars, clientVars, clock, cache, taskClosed, wg,
                   spawned, queued, mainPc, results, selIdx, history, coord, wakeAt, ret,
                   look, issueVars>>

\* executeRequest after Wait and the rest of GetCoordinatesFromVegreferanse
ReverseCall(w) ==
    /\ mode = "reverse"
    /\ pc[w] = "call"
    /\ LET vegreferanse == ParseReference(cur[w].line).vegreferanse
       IN  /\ issued' = issued (+) SetToBag({vegreferanse})
           /\ \E r \in ReverseResponses(vegreferanse) :
                /\ ret' = [ret EXCEPT ![w] = GetCoordinatesFromVegreferanse(vegreferanse, r)]
                /\ answers' = [answers EXCEPT ![cur[w].lineIdx] = r]
                /\ look' = [look EXCEPT ![w].ext = @ + 1, ![w].resp = r]
    /\ pc' = [pc EXCEPT ![w] = "ret"]
    /\ UNCHANGED <<configVars, selectorVars, fileVars, dirVars, batchVars, limiterVars, clientVars, clock, cache, coord,
                   wakeAt, issuedAt>>

\* a worker sends the result of a lookup and is back at the head of its loop
ReverseSend(w) ==
    /\ mode = "reverse"
    /\ pc[w] = "ret"
    /\ resultChannel' = Append(resultChannel, ReverseResult(cur[w], ret[w]))
    /\ pc' = [pc EXCEPT ![w] = "loop"]
    /\ cur' = [cur EXCEPT ![w] = ZeroTask]
    /\ ret' = [ret EXCEPT ![w] = NoRet]
    /\ look' = [look EXCEPT ![w] = NoLook]
    /\ UNCHANGED <<configVars, selectorVars, fileVars, dirVars, limiterVars, clientVars, clock, cache, wakeAt, issueVars,
                   taskChannel, taskClosed, wg, spawned, queued, mainPc, results,
                   selIdx, history, coord>>

\* wg.Wait() returns; close(resultChannel), the collection loop, the sort
ReverseCollect ==
    /\ mode = "reverse"
    /\ mainPc = "run"
    /\ taskClosed
    /\ wg = 0
    /\ results' = Collected(Len(lines), resultChannel)
    /\ resultChannel' = <<>>
    /\ mainPc' = "done"
    /\ UNCHANGED <<configVars, selectorVars, fileVars, dirVars, limiterVars, clientVars, lookupVars, clock, cache,
                   taskChannel, taskClosed, wg, spawned, queued, selIdx, history, cur, pc>>

InitReverse ==
    /\ mode = "reverse"
    /\ lines \in SeqsUpTo(ReverseLines, MaxLines)
    /\ workers \in 1..MaxWorkers
    /\ cacheEnabled = FALSE
    /\ stable = FALSE
    /\ limit \in Limits
    /\ timeFrame = BatchTimeFrame
    /\ cache = EmptyCache
    /\ mainPc = "run"
    /\ InitCommon

ReverseWorker(w) ==
    \/ ReverseTake(w)
    \/ WaitEnter(w)
    \/ WaitWake(w)
    \/ ReverseCall(w)
    \/ ReverseSend(w)
    \/ WorkerExit(w)

NextReverse ==
    \/ StartWorker
    \/ QueueTask
    \/ CloseTasks
    \/ ReverseCollect
    \/ \E w \in Procs : ReverseWorker(w)
    \/ Tick

SpecReverse == InitReverse /\ [][NextReverse]_vars

\* ------------------------------------------------------ sequential client
\* one caller makes lookups one after the other, as the tests of the client do;
\* the cache directory may hold a file for the first key when it starts
PresetKey == getCacheFilePath(0, 0)

\* the coordinates the caller asks for: two that share a key, one that does not
ClientCoords == {<<0, 0>>, <<4, 0>>, <<10, 0>>}

InitClient ==
    /\ mode = "client"
    /\ lines = <<>>
    /\ workers = 0
    /\ cacheEnabled \in BOOLEAN
    /\ stable = FALSE
    /\ limit \in Limits
    /\ timeFrame = BatchTimeFrame
    /\ \E f \in FileSet : cache = [EmptyCache EXCEPT ![PresetKey] = f]
    /\ mainPc = "done"
    /\ InitCommon

\* the caller enters GetVegreferanseMatches(x, y)
ClientCall(w) ==
    /\ mode = "client"
    /\ w = 1
    /\ pc[w] = "idle"
    /\ done[w] < MaxLookups
    /\ \E c \in ClientCoords : coord' = [coord EXCEPT ![w] = c]
    /\ look' = [look EXCEPT ![w] = [NoLook EXCEPT !.cache = cache, !.calls = calls]]
    /\ pc' = [pc EXCEPT ![w] = "get"]
    /\ UNCHANGED <<configVars, selectorVars, fileVars, dirVars, batchVars, limiterVars, clientVars, clock, cache, wakeAt,
                   ret, issueVars>>

\* GetVegreferanseMatches returns to the caller
ClientReturn(w) ==
    /\ mode = "client"
    /\ pc[w] = "ret"
    /\ trace' = [trace EXCEPT ![getCacheFilePath(coord[w][1], coord[w][2])] =
                    [seen |-> TRUE, found |-> look[w].found, ext |-> look[w].ext,
                     set |-> look[w].set, ret |-> ret[w]]]
    /\ done' = [done EXCEPT ![w] = @ + 1]
    /\ pc' = [pc EXCEPT ![w] = "idle"]
    /\ coord' = [coord EXCEPT ![w] = <<0, 0>>]
    /\ ret' = [ret EXCEPT ![w] = NoRet]
    /\ look' = [look EXCEPT ![w] = NoLook]
    /\ UNCHANGED <<configVars, selectorVars, fileVars, dirVars, batchVars, limiterVars, clock, cache, wakeAt, issueVars>>

Client(w) ==
    \/ ClientCall(w)
    \/ CacheGet(w)
    \/ WaitEnter(w)
    \/ WaitWake(w)
    \/ ExternalCall(w)
    \/ ClientReturn(w)

NextClient ==
    \/ \E w \in Procs : Client(w)
    \/ Tick

SpecClient == InitClient /\ [][NextClient]_vars

\* ------------------------------------------------------ the disk cache alone
\* info.Size() of a cache file, an encoded match counting ItemBytes bytes
ItemBytes == 100

MaxCacheOps == 4     \* calls made on the disk cache alone

FileSize(f) ==
    IF ~f.exists
    THEN 0
    ELSE IF f.data.json = "list"
    THEN 2 + ItemBytes * Len(f.data.items)
    ELSE 1

RECURSIVE SumSizes(_, _)
SumSizes(files, keys) ==
    IF keys = {}
    THEN 0
    ELSE LET k == CHOOSE q \in keys : TRUE
         IN  FileSize(files[k]) + SumSizes(files, keys \ {k})

\* VegreferanseDiskCache.Stats: filepath.Walk hands the callback the error of
\* os.Lstat when the root does not exist, and the callback returns it
Stats(files, dirExists) ==
    IF ~dirExists
    THEN [count |-> 0, size |-> 0, err |-> Err("lstat: no such file or directory")]
    ELSE [count |-> Cardinality({k \in KeySet : files[k].exists}),
          size |-> SumSizes(files, KeySet),
          err |-> NilErr]

\* VegreferanseDiskCache.Clear: os.RemoveAll(c.cacheDir) removes the
\* directory with everything in it
Clear(files) == [files |-> EmptyCache, dirExists |-> FALSE]

\* the lists a caller stores
CacheLists == {<<>>, ItemsToMatches(ItemsK1)}

cacheFrame == <<configVars, selectorVars, fileVars, limiterVars, clientVars, lookupVars,
                batchVars, clock, pc>>

PrevOp == [op |-> cacheOp.op, key |-> cacheOp.key, matches |-> cacheOp.matches,
           outcome |-> cacheOp.outcome]

\* diskCache.Get(x, y); getCacheFilePath makes the subdirectory, and with it
\* the cache directory, when it is missing
DirectGet ==
    /\ mode = "cache"
    /\ cacheOp.n < MaxCacheOps
    /\ \E c \in ClientCoords :
         LET got == Get(cache, c[1], c[2])
         IN  cacheOp' = [NoCacheOp EXCEPT !.op = "get",
                                         !.key = getCacheFilePath(c[1], c[2]),
                                         !.matches = got.matches, !.found = got.found,
                                         !.cleared = cacheOp.cleared,
                                         !.n = cacheOp.n + 1, !.prev = PrevOp]
    /\ cacheDir' = TRUE
    /\ UNCHANGED <<cacheFrame, cache>>

\* diskCache.Set(x, y, matches)
DirectSet ==
    /\ mode = "cache"
    /\ cacheOp.n < MaxCacheOps
    /\ \E c \in ClientCoords, m \in CacheLists, o \in SetOutcomes :
         /\ cache' = Set(cache, c[1], c[2], m, o)
         /\ cacheDir' = IF o = "refused" THEN cacheDir ELSE TRUE
         /\ cacheOp' = [NoCacheOp EXCEPT !.op = "set",
                                         !.key = getCacheFilePath(c[1], c[2]),
                                         !.matches = m, !.outcome = o,
                                         !.err = IF o = "written" THEN NilErr
                                                 ELSE Err("failed to write cache file"),
                                         !.cleared = IF o = "refused"
                                                     THEN cacheOp.cleared
                                                     ELSE FALSE,
                                         !.n = cacheOp.n + 1, !.prev = PrevOp]
    /\ UNCHANGED cacheFrame

\* diskCache.Clear()
DirectClear ==
    /\ mode = "cache"
    /\ cacheOp.n < MaxCacheOps
    /\ cache' = Clear(cache).files
    /\ cacheDir' = Clear(cache).dirExists
    /\ cacheOp' = [NoCacheOp EXCEPT !.op = "clear", !.cleared = TRUE,
                                    !.n = cacheOp.n + 1, !.prev = PrevOp]
    /\ UNCHANGED cacheFrame

\* diskCache.Stats()
DirectStats ==
    /\ mode = "cache"
    /\ cacheOp.n < MaxCacheOps
    /\ LET st == Stats(cache, cacheDir)
       IN  cacheOp' = [NoCacheOp EXCEPT !.op = "stats", !.count = st.count,
                                        !.size = st.size, !.err = st.err,
                                        !.cleared = cacheOp.cleared,
                                        !.n = cacheOp.n + 1, !.prev = PrevOp]
    /\ UNCHANGED <<cacheFrame, cache, cacheDir>>

\* a cache made by NewVegreferanseDiskCache over a directory that may hold
\* files of earlier runs
InitCache ==
    /\ mode = "cache"
    /\ lines = <<>>
    /\ workers = 0
    /\ cacheEnabled = TRUE
    /\ stable = TRUE
    /\ limit = 1
    /\ timeFrame = BatchTimeFrame
    /\ cache \in [KeySet -> {FileAbsent, FileData(Garbage), FileData(Marshal(<<>>))}]
    /\ mainPc = "done"
    /\ InitCommon

NextCache ==
    \/ DirectGet
    \/ DirectSet
    \/ DirectClear
    \/ DirectStats

SpecCache == InitCache /\ [][NextCache]_vars

\* ------------------------------------------------- callers of the limiter
\* concurrent callers of executeRequest: Wait, then the request
InitLimiter ==
    /\ mode = "limiter"
    /\ lines = <<>>
    /\ workers = 0
    /\ cacheEnabled = FALSE
    /\ stable = TRUE
    /\ limit \in Limits
    /\ timeFrame \in TimeFrames
    /\ cache = EmptyCache
    /\ mainPc = "done"
    /\ InitCommon

\* the Wait calls begun so far: those admitted and those still inside Wait
CallsStarted == Len(admitted) + Cardinality({v \in Procs : pc[v] \in {"wait", "sleep"}})

\* a caller enters executeRequest
CallerStart(w) ==
    /\ mode = "limiter"
    /\ w <= MaxCallers
    /\ pc[w] = "idle"
    /\ CallsStarted < MaxCalls
    /\ pc' = [pc EXCEPT ![w] = "wait"]
    /\ UNCHANGED <<configVars, selectorVars, fileVars, dirVars, batchVars, limiterVars, clientVars, lookupVars, clock, cache>>

\* apiClient.Do: the request goes out, some time after Wait has returned
CallerIssue(w) ==
    /\ mode = "limiter"
    /\ pc[w] = "call"
    /\ issuedAt' = issuedAt (+) SetToBag({clock})
    /\ pc' = [pc EXCEPT ![w] = "idle"]
    /\ look' = [look EXCEPT ![w] = NoLook]
    /\ UNCHANGED <<configVars, selectorVars, fileVars, dirVars, batchVars, limiterVars, clientVars, clock, cache, coord,
                   wakeAt, ret, issued, answers>>

Caller(w) ==
    \/ CallerStart(w)
    \/ WaitEnter(w)
    \/ WaitWake(w)
    \/ CallerIssue(w)

NextLimiter ==
    \/ \E w \in Procs : Caller(w)
    \/ Tick

SpecLimiter == InitLimiter /\ [][NextLimiter]_vars

\* the callers of the limiter when time advances and the mutex is granted
\* fairly: a caller that finds the mutex free again and again does get it
SpecLimiterLive ==
    /\ InitLimiter
    /\ [][NextLimiter]_vars
    /\ WF_vars(Tick)
    /\ \A w \in Procs : SF_vars(WaitEnter(w)) /\ WF_vars(WaitWake(w))

\* the batch under fair scheduling: every goroutine that can run does run,
\* time passes, every provider call returns
LiveLines == {LineBadX, LineK0, LineK3}

InitLive ==
    /\ Init
    /\ Range(lines) \subseteq LiveLines
    /\ cacheEnabled
    /\ ~stable

SpecLive ==
    /\ InitLive
    /\ [][Next]_vars
    /\ WF_vars(Coordinator)
    /\ \A w \in Procs : WF_vars(Worker(w))
    /\ WF_vars(Tick)

\* ----------------------------------------------------- the selector alone
\* A VegreferanseSelector with NewVegreferanseSelector(maxHistory) used by a
\* single caller: SelectBestMatch, AddToHistory, and the pure functions
\* calculateMatchScore and extractCategory, each call observed in `sel`.
\* mode "selector" draws rich candidate lists over a short history, mode
\* "history" draws long sequences of appends over few labels.
MaxPrev == 1         \* labels appended before a selection (mode "selector")
MaxCands == 2        \* longest candidate list
MaxAdds == 11        \* labels appended in all (mode "history")

\* Avstand values in centimetres: 0.05 m, 3 m, 11 m, 101 m
Distances == {5, 300, 1100, 10100}

PrevLabels == {LblE18a, LblKv1, LblBlank}
CandLabels == {LblE18b, LblE18c, LblE6, LblKv1, LblKv2, NoLabel}
ScoreLabels == PrevLabels \cup CandLabels \cup {LblE18}
HistLabels == {LblE18a, LblKv1}

\* road identifiers: E18, Kv1000, one without digits, one of digits only, ""
Roads == {<<"E", "1", "8">>, <<"K", "v", "1", "0", "0", "0">>, <<"E", "v">>,
          <<"1", "8">>, <<"E", "1", "v", "8">>, <<>>}

AddLabels == IF mode = "history" THEN HistLabels ELSE PrevLabels
AddLimit == IF mode = "history" THEN MaxAdds ELSE MaxPrev
Candidates ==
    IF mode = "history"
    THEN {Match(l, 0) : l \in HistLabels \cup {NoLabel}}
    ELSE {Match(l, d) : l \in CandLabels, d \in Distances}

InitSelector ==
    /\ mode = "selector"
    /\ lines = <<>>
    /\ workers = 1
    /\ cacheEnabled = FALSE
    /\ stable = TRUE
    /\ limit = 1
    /\ timeFrame = BatchTimeFrame
    /\ cache = EmptyCache
    /\ mainPc = "done"
    /\ InitCommon

InitHistory ==
    /\ mode = "history"
    /\ lines = <<>>
    /\ workers = 1
    /\ cacheEnabled = FALSE
    /\ stable = TRUE
    /\ limit = 1
    /\ timeFrame = BatchTimeFrame
    /\ cache = EmptyCache
    /\ mainPc = "done"
    /\ InitCommon

selectorFrame == <<configVars, fileVars, dirVars, limiterVars, clientVars, lookupVars, clock, cache, taskChannel,
                   taskClosed, resultChannel, wg, spawned, queued, mainPc, results, selIdx,
                   cur, pc>>

\* plausible bug: SelectBestMatch records its own choice in the history
SelectCallRecords ==
    /\ mode \in {"selector", "history"}
    /\ sel.op = "none"
    /\ \E ms \in SeqsUpTo(Candidates, MaxCands) :
         /\ sel' = [NoSel EXCEPT !.op = "select", !.hist = history, !.matches = ms,
                                 !.label = SelectBestMatch(history, ms)]
         /\ history' = AddToHistory(history, SelectBestMatch(history, ms))
    /\ UNCHANGED <<selectorFrame, added>>

\* selector.SelectBestMatch(matches): the history is read, not written
SelectCall ==
    /\ mode \in {"selector", "history"}
    /\ sel.op = "none"
    /\ \E ms \in SeqsUpTo(Candidates, MaxCands) :
         sel' = [NoSel EXCEPT !.op = "select", !.hist = history, !.matches = ms,
                              !.label = SelectBestMatch(history, ms)]
    /\ UNCHANGED <<selectorFrame, history, added>>

\* selector.AddToHistory(vegreferanse) with a label of the caller's
AddCall ==
    /\ mode \in {"selector", "history"}
    /\ sel.op = "none"
    /\ \E l \in AddLabels \cup {NoLabel} :
         /\ l # NoLabel => Len(added) < AddLimit
         /\ history' = AddToHistory(history, l)
         /\ added' = IF l = NoLabel THEN added ELSE Append(added, l)
         /\ sel' = [NoSel EXCEPT !.op = "add", !.hist = history, !.label = l]
    /\ UNCHANGED selectorFrame

\* selector.AddToHistory(result.vegreferanse) with the label just selected, as
\* in the loop of applyVegreferanseSelector
AddSelected ==
    /\ mode \in {"selector", "history"}
    /\ sel.op = "select"
    /\ sel.label # NoLabel => Len(added) < AddLimit
    /\ history' = AddToHistory(history, sel.label)
    /\ added' = IF sel.label = NoLabel THEN added ELSE Append(added, sel.label)
    /\ sel' = [sel EXCEPT !.op = "add", !.hist = history]
    /\ UNCHANGED selectorFrame

\* s.calculateMatchScore(previous, current, distance)
ScoreCall ==
    /\ mode = "selector"
    /\ sel.op = "none"
    /\ \E p \in ScoreLabels, c \in ScoreLabels, d \in Distances :
         sel' = [NoSel EXCEPT !.op = "score", !.previous = p, !.current = c,
                              !.distance = d, !.score = calculateMatchScore(p, c, d)]
    /\ UNCHANGED <<selectorFrame, history, added>>

\* extractCategory(road)
CategoryCall ==
    /\ mode = "selector"
    /\ sel.op = "none"
    /\ \E road \in Roads :
         sel' = [NoSel EXCEPT !.op = "category", !.current = road,
                              !.label = extractCategory(road)]
    /\ UNCHANGED <<selectorFrame, history, added>>

\* the caller has taken the result
SelReturn ==
    /\ mode \in {"selector", "history"}
    /\ sel.op # "none"
    /\ sel' = NoSel
    /\ UNCHANGED <<selectorFrame, history, added>>

NextSelector ==
    \/ SelectCall
    \/ AddCall
    \/ AddSelected
    \/ ScoreCall
    \/ CategoryCall
    \/ SelReturn

SpecSelector == InitSelector /\ [][NextSelector]_vars

NextHistory ==
    \/ SelectCall
    \/ AddCall
    \/ AddSelected
    \/ SelReturn

SpecHistory == InitHistory /\ [][NextHistory]_vars

\* ----------------------------------------------------------- batch claims
\* processCoordinatesToVegreferanse has just returned its result slice
BatchReturned == mainPc = "select" /\ selIdx = 0

\* the results are collected (the batch function has returned, the selector
\* pass may have begun)
BatchCollected == mainPc \in {"select", "done"}

C2_Terminates ==
    (workers >= 1) => <>(mainPc = "done" /\ Len(results) = Len(lines))

\* a run of two workers over two lines has ended, the limiter (one call per
\* time frame) having held the second lookup back
C2_Witness ==
    /\ mainPc = "done"
    /\ workers = 2
    /\ Len(results) = 2
    /\ Len(lines) = 2
    /\ limit = 1
    /\ Len(admitted) = 2

\* record i (1-based) fails: its line is malformed, or the provider answered
\* its lookup with a failure
Fails(i) ==
    \/ ~Parse(lines[i]).ok
    \/ /\ answers[i - 1] # NoAnswer
       /\ Interpret(answers[i - 1]).err # "nil"

\* what the batch function returns for one line when the provider gives the
\* answer `r`: a function of the line and the answer alone
ReturnedOn(i, line, r) ==
    LET p == Parse(line)
    IN  IF ~p.ok
        THEN Result(i, line, NoLabel, <<>>, p.err)
        ELSE LookupResult(Task(i, line), LookupRet(r))

\* the same under the key-determined provider
ExpectedReturned(i, line) ==
    LET p == Parse(line)
    IN  ReturnedOn(i, line, TrueResponse(Format6(p.x), Format6(p.y)))

\* C3: per-task failure isolation. When the batch function returns (it has no
\* error return), every failing record carries a non-nil error at its own line
\* index; every record's result is one that its own line and the provider's
\* answers to its own key can give, and under a key-determined provider it is
\* the result fixed by its own line, whether or not other records failed.
C3_FailureIsolated ==
    (BatchReturned /\ workers >= 1) =>
        \A i \in 1..Len(lines) :
            /\ Len(results) = Len(lines)
            /\ results[i].lineIdx = i - 1
            /\ Fails(i) => results[i].err # NilErr
            /\ ~Fails(i) => results[i].err = NilErr
            /\ \E r \in ProviderResponses(Parse(lines[i]).x, Parse(lines[i]).y) :
                   results[i] = ReturnedOn(i - 1, lines[i], r)
            /\ stable => results[i] = ExpectedReturned(i - 1, lines[i])

\* the batch function has returned: the first record failed at the provider,
\* the second was resolved with candidates
C3_Witness ==
    /\ BatchReturned
    /\ workers = 2
    /\ Len(lines) = 2
    /\ stable
    /\ Fails(1)
    /\ answers[0] # NoAnswer
    /\ results[1].err # NilErr
    /\ results[2].err = NilErr
    /\ results[2].matches # <<>>

\* the selector pass of applyVegreferanseSelector from record i on
RECURSIVE SelectorPass(_, _, _)
SelectorPass(rs, i, hist) ==
    IF i > Len(rs)
    THEN rs
    ELSE IF Len(rs[i].matches) > 0
         THEN LET veg == SelectBestMatch(hist, rs[i].matches)
              IN  SelectorPass([rs EXCEPT ![i].vegreferanse = veg], i + 1,
                               AddToHistory(hist, veg))
         ELSE SelectorPass(rs, i + 1, hist)

\* the final results of a serial run over `ls` with the key-determined provider
ExpectedFinal(ls) ==
    SelectorPass([i \in 1..Len(ls) |-> ExpectedReturned(i - 1, ls[i])], 1, <<>>)

\* C4: worker-count independence. With a provider whose answer depends on the
\* queried key alone, the results after the selector pass (label, candidates
\* and failure at every line index) are those of the serial computation over
\* the input lines, hence the same for one worker and for several, under every
\* interleaving.
C4_WorkerCountIndependent ==
    (mainPc = "done" /\ stable /\ workers >= 1) => results = ExpectedFinal(lines)

\* two workers have finished a run in which the selector pass replaced the
\* nearest candidate of the second record by the one that continues the road
C4_Witness ==
    /\ mainPc = "done"
    /\ stable
    /\ workers = 2
    /\ Len(lines) = 2
    /\ Len(results[2].matches) = 2
    /\ results[2].vegreferanse # results[2].matches[1].kortform
    /\ results = ExpectedFinal(lines)

\* --------------------------------------------------------- limiter claims
\* the admissions among the first n whose timestamp is less than one time
\* frame older than that of the n-th
RecentAdmissions(n) == {k \in 1..n : admitted[n] - admitted[k] < timeFrame}

\* C5: Wait never over-admits. At every admission, the admissions up to and
\* including it whose timestamp t has now - t < timeFrame number at most limit.
C5_NeverOverAdmits ==
    \A n \in 1..Len(admitted) : Cardinality(RecentAdmissions(n)) <= limit

\* under contention (a caller is waiting for the mutex) a caller that had to
\* sleep has been admitted after two admissions filled the limit
C5_Witness ==
    /\ mode = "limiter"
    /\ limit = 2
    /\ Len(admitted) = 3
    /\ admitted[3] - admitted[1] >= timeFrame
    /\ Cardinality(RecentAdmissions(2)) = 2
    /\ \E w \in Procs : pc[w] = "wait"

\* the requests issued at a time in lo+1..hi
IssuedIn(lo, hi) ==
    BagCardinality([t \in {u \in BagToSet(issuedAt) : lo < u /\ u <= hi} |-> issuedAt[t]])

\* C6: rate bound on the external calls. In every window of one time frame
\* (here the window that ends at an issue time) at most limit requests are
\* issued, the request being issued at some time after Wait has returned.
C6_IssueRateBound ==
    \A u \in BagToSet(issuedAt) : IssuedIn(u - timeFrame, u) <= limit

\* ---------------------------------------------------------- lookup claims
\* the sequential client's lookup has run and is about to return
AtReturn == mode = "client" /\ pc[1] = "ret"

\* the key of that lookup, and the last lookup of the same key before it
ThisKey == getCacheFilePath(coord[1][1], coord[1][2])
Prev == trace[ThisKey]

\* the provider's answers by kind: zero matches, and failure
IsZeroMatch(r) ==
    /\ r.err = "none"
    /\ \/ r.status = StatusNotFound
       \/ r.status = StatusOK /\ Unmarshal(r.body).ok /\ Unmarshal(r.body).items = <<>>

IsFailure(r) ==
    \/ r.err # "none"
    \/ r.status \notin {StatusOK, StatusNotFound}
    \/ r.status = StatusOK /\ ~Unmarshal(r.body).ok

C8_HitShortCircuits ==
    (AtReturn /\ look[1].found) =>
        /\ ret[1] = [matches |-> Get(look[1].cache, coord[1][1], coord[1][2]).matches,
                     err |-> NilErr]
        /\ look[1].waits = 0
        /\ look[1].ext = 0
        /\ calls = look[1].calls
        /\ cache = look[1].cache

\* a hit on a non-empty entry, after an earlier lookup went through the limiter
C8_Witness ==
    /\ AtReturn
    /\ look[1].found
    /\ ret[1].matches # <<>>
    /\ calls # <<>>
    /\ look[1].waits = 0

C10_FailureNotCached ==
    /\ (AtReturn /\ look[1].ext = 1 /\ IsFailure(look[1].resp)) =>
           /\ ret[1].err # NilErr
           /\ ret[1].matches = <<>>
           /\ look[1].set = "none"
           /\ cache = look[1].cache
    /\ (AtReturn /\ Prev.seen /\ Prev.ret.err # NilErr) =>
           /\ ~look[1].found
           /\ look[1].ext = 1

\* with the cache in use, the lookup after a failed one has called the
\* provider again, this time with success
C10_Witness ==
    /\ AtReturn
    /\ cacheEnabled
    /\ Prev.seen
    /\ Prev.ret.err # NilErr
    /\ look[1].ext = 1
    /\ ret[1].err = NilErr
    /\ ret[1].matches # <<>>

\* the entry's file exists but cannot be read, or its content is not a JSON list
Corrupt(f) == f.exists /\ (~f.readable \/ ~Unmarshal(f.data).ok)

\* C11: Get on an entry whose file exists but cannot be read or decoded is a
\* cache miss. It returns (nil, false) and no error, and the lookup goes on as
\* for an absent entry: one limiter acquisition, one external call, and the
\* return value the provider's answer determines.
C11_CorruptIsMiss ==
    (AtReturn /\ cacheEnabled /\ Corrupt(look[1].cache[ThisKey])) =>
        /\ Get(look[1].cache, coord[1][1], coord[1][2]) = [matches |-> <<>>, found |-> FALSE]
        /\ ~look[1].found
        /\ look[1].waits = 1
        /\ look[1].ext = 1
        /\ ret[1] = LookupRet(look[1].resp)

\* a lookup over an undecodable file has fetched candidates from the provider
C11_Witness ==
    /\ AtReturn
    /\ cacheEnabled
    /\ look[1].cache[ThisKey] = FileData(Garbage)
    /\ look[1].ext = 1
    /\ ret[1].matches # <<>>

\* -------------------------------------------------------- selector claims
\* the score the scan gives candidate i of the observed SelectBestMatch call
LastLabel == sel.hist[Len(sel.hist)]
ScoreOf(i) == calculateMatchScore(LastLabel, sel.matches[i].kortform, sel.matches[i].avstand)

\* C12: with more than one candidate and a non-empty history, SelectBestMatch
\* returns the label of the candidate of maximum score against the most
\* recent history entry, the earliest such candidate when several are equal,
\* for every candidate list, those with only negative scores included.
C12_MaxScoreFirst ==
    (sel.op = "select" /\ Len(sel.matches) > 1 /\ sel.hist # <<>>) =>
        \E i \in 1..Len(sel.matches) :
            /\ \A k \in 1..Len(sel.matches) : ScoreOf(k) <= ScoreOf(i)
            /\ \A k \in 1..(i - 1) : ScoreOf(k) < ScoreOf(i)
            /\ sel.label = sel.matches[i].kortform

\* the bonus the scoring rule gives a pair of labels: 1000 for equal first
\* tokens, else 100 for equal categories of the first tokens, and 50 more for
\* equal second tokens
HasRoad(l) == Len(Fields(l)) >= 1
RoadOf(l) == Fields(l)[1]
HasSection(l) == Len(Fields(l)) >= 2
SectionOf(l) == Fields(l)[2]
SameRoad(p, c) == HasRoad(p) /\ HasRoad(c) /\ RoadOf(p) = RoadOf(c)
SameCategory(p, c) ==
    HasRoad(p) /\ HasRoad(c) /\ extractCategory(RoadOf(p)) = extractCategory(RoadOf(c))
SameSection(p, c) == HasSection(p) /\ HasSection(c) /\ SectionOf(p) = SectionOf(c)
RuleBonus(p, c) ==
    (IF SameRoad(p, c) THEN 1000 ELSE IF SameCategory(p, c) THEN 100 ELSE 0)
    + (IF SameSection(p, c) THEN 50 ELSE 0)

\* C13: for all label pairs and distances the score is the bonus of the rule
\* minus 10 times the candidate distance. The distance being in centimetres,
\* 10 times the distance in metres is a tenth of it: ten times the score is
\* ten times the bonus minus the distance.
C13_ScoreFormula ==
    (sel.op = "score") =>
        10 * sel.score = 10 * RuleBonus(sel.previous, sel.current) - sel.distance

\* C14: SelectBestMatch returns the first candidate's label whenever there is
\* exactly one candidate or the history is empty, whatever the distances.
C14_FirstByDefault ==
    (sel.op = "select" /\ (Len(sel.matches) = 1 \/ (Len(sel.matches) >= 1 /\ sel.hist = <<>>))) =>
        sel.label = sel.matches[1].kortform

\* with an empty history the first of two candidates is returned although the
\* second, on another road, is nearer
C14_Witness ==
    /\ sel.op = "select"
    /\ sel.hist = <<>>
    /\ Len(sel.matches) = 2
    /\ sel.matches[1].avstand > sel.matches[2].avstand
    /\ sel.matches[1].kortform # sel.matches[2].kortform
    /\ sel.label = sel.matches[1].kortform

\* C15: continuity override. With a non-empty history, of two candidates the
\* one on the road of the last history entry is selected over one that shares
\* neither road identifier, category nor section with that entry, in either
\* order, whenever it is less than 100 m (10000 cm) farther than the other.
C15_ContinuityOverride ==
    (sel.op = "select" /\ sel.hist # <<>> /\ Len(sel.matches) = 2) =>
        \A i, j \in 1..2 :
            (/\ i # j
             /\ SameRoad(LastLabel, sel.matches[i].kortform)
             /\ HasRoad(sel.matches[j].kortform)
             /\ ~SameRoad(LastLabel, sel.matches[j].kortform)
             /\ ~SameCategory(LastLabel, sel.matches[j].kortform)
             /\ ~SameSection(LastLabel, sel.matches[j].kortform)
             /\ sel.matches[i].avstand - sel.matches[j].avstand < 10000)
            => sel.label = sel.matches[i].kortform

\* C16: category fallback. With a non-empty history, of two candidates the one
\* on another road of the category of the last history entry is selected over
\* one of another category, in either order, whenever neither shares the
\* section token with the last entry and the same-category candidate is less
\* than 10 m (1000 cm) farther than the other.
C16_CategoryFallback ==
    (sel.op = "select" /\ sel.hist # <<>> /\ Len(sel.matches) = 2) =>
        \A i, j \in 1..2 :
            (/\ i # j
             /\ ~SameRoad(LastLabel, sel.matches[i].kortform)
             /\ SameCategory(LastLabel, sel.matches[i].kortform)
             /\ HasRoad(sel.matches[j].kortform)
             /\ ~SameCategory(LastLabel, sel.matches[j].kortform)
             /\ ~SameSection(LastLabel, sel.matches[i].kortform)
             /\ ~SameSection(LastLabel, sel.matches[j].kortform)
             /\ sel.matches[i].avstand - sel.matches[j].avstand < 1000)
            => sel.label = sel.matches[i].kortform

\* C17: history eviction is FIFO with capacity maxHistory. After AddToHistory
\* calls with k non-empty labels the history is the last min(k, maxHistory)
\* of those labels in insertion order.
C17_HistoryFifo ==
    LET k == Len(added)
        n == IF k < maxHistory THEN k ELSE maxHistory
    IN  history = SubSeq(added, k - n + 1, k)

\* one label more than the capacity has been appended: the history is full
\* and begins with the second label, the first is gone
C17_Witness ==
    /\ Len(added) = maxHistory + 1
    /\ Len(history) = maxHistory
    /\ added[1] # added[2]
    /\ history[1] = added[2]
    /\ history[maxHistory] = added[maxHistory + 1]

\* C18: the selection history never contains the empty label, after any
\* sequence of SelectBestMatch and AddToHistory operations and for any
\* candidate lists, candidates with an empty label included.
C18_NoEmptyLabel == \A i \in 1..Len(history) : history[i] # NoLabel

\* SelectBestMatch has returned the empty label of a candidate and
\* AddToHistory has been called with it, over a non-empty history
C18_Witness ==
    /\ sel.op = "add"
    /\ sel.matches # <<>>
    /\ sel.label = NoLabel
    /\ sel.hist # <<>>
    /\ history = sel.hist

\* C19: extractCategory returns the maximal leading prefix of the road
\* identifier that contains no decimal digit: everything before the first
\* digit, the whole identifier when it has none, empty for empty input.
C19_CategoryPrefix ==
    (sel.op = "category") =>
        LET road == sel.current
            cat == sel.label
            n == Len(sel.label)
        IN  /\ n <= Len(road)
            /\ cat = SubSeq(road, 1, n)
            /\ \A i \in 1..n : cat[i] \notin Digits
            /\ n < Len(road) => road[n + 1] \in Digits

\* Kv1000 -> Kv
C19_Witness ==
    /\ sel.op = "category"
    /\ sel.current = <<"K", "v", "1", "0", "0", "0">>
    /\ sel.label = <<"K", "v">>

\* ------------------------------------------------- selector pass and workers
\* every worker goroutine that was started has returned
AllJoined == spawned = workers /\ wg = 0 /\ \A w \in Procs : pc[w] = (IF w <= workers THEN "exit" ELSE "idle")

\* the history after the selector pass has visited records 1..i of rs in
\* that order
RECURSIVE HistoryOf(_, _)
HistoryOf(rs, i) ==
    IF i = 0
    THEN <<>>
    ELSE LET h == HistoryOf(rs, i - 1)
         IN  IF Len(rs[i].matches) > 0 THEN AddToHistory(h, rs[i].vegreferanse) ELSE h

\* C20: the selector pass starts only after every worker has finished and
\* all results have been collected, it visits the records in ascending line
\* index, and no SelectBestMatch or AddToHistory step runs while a worker is
\* in a lookup. Before the pass the selector has done nothing; during and
\* after it no goroutine is alive and the result channel is empty (with at
\* least one worker the task channel too, and the records lie in line order),
\* records 1..selIdx have been visited in that order and the later ones still
\* carry the label their worker gave them.
C20_SelectorAfterJoin ==
    /\ mainPc = "run" => (history = <<>> /\ selIdx = 0)
    /\ mainPc \in {"select", "done"} =>
         /\ AllJoined
         /\ resultChannel = <<>>
         /\ Len(results) = Len(lines)
         /\ workers >= 1 =>
              /\ taskChannel = <<>>
              /\ \A i \in 1..Len(results) : results[i].lineIdx = i - 1
         /\ history = HistoryOf(results, selIdx)
         /\ \A i \in (selIdx + 1)..Len(results) :
              results[i].vegreferanse =
                  (IF Len(results[i].matches) > 0 THEN results[i].matches[1].kortform ELSE NoLabel)

\* two workers have finished, the pass has selected for the first record and
\* is about to visit the second
C20_Witness ==
    /\ mode = "batch"
    /\ mainPc = "select"
    /\ workers = 2
    /\ selIdx = 1
    /\ history # <<>>
    /\ Len(results) = 2
    /\ results[2].matches # <<>>

\* ------------------------------------------------------- results and tasks
\* every result there is: sent and not yet collected, or collected
AllResults == Range(resultChannel) \cup Range(results)

\* C25: in every result, before and after the selector pass, resolved value
\* and failure exclude each other: a result with a non-nil error has an empty
\* resolved value and an empty candidate list, and a result with a non-empty
\* resolved value has a nil error.
C25_ValueXorFailure ==
    \A r \in AllResults :
        /\ r.err # NilErr => (r.vegreferanse = NoLabel /\ r.matches = <<>>)
        /\ r.vegreferanse # NoLabel => r.err = NilErr

\* after the selector pass a failed record stands beside a resolved one
C25_Witness ==
    /\ mode = "batch"
    /\ mainPc = "done"
    /\ \E r \in Range(results) : r.err # NilErr /\ Head(r.err) = "API error"
    /\ \E r \in Range(results) : r.vegreferanse # NoLabel

\* a worker is between taking a task and sending its result
Holding(w) == pc[w] \in {"get", "wait", "sleep", "call", "ret"}

\* the places where line index i is found: in the task queue, in the hands of
\* a worker, in the result channel, in the collected slice
InSeq(s, i) == Cardinality({j \in 1..Len(s) : s[j].lineIdx = i})
Copies(i) ==
    InSeq(taskChannel, i)
    + Cardinality({w \in Procs : Holding(w) /\ cur[w].lineIdx = i})
    + InSeq(resultChannel, i)
    + InSeq(results, i)

\* C26: exactly-once processing. With at least one worker every line index
\* that has been queued is in exactly one place (the task queue, one worker,
\* the result channel, one slot of the slice) and no other index anywhere;
\* the slice is filled only when every worker has finished, and then holds
\* one slot for each line.
C26_ExactlyOnce ==
    (mode = "batch" /\ workers >= 1) =>
        /\ \A i \in 0..(Len(lines) - 1) : Copies(i) = (IF i < queued THEN 1 ELSE 0)
        /\ results # <<>> =>
             /\ AllJoined
             /\ \A i \in 0..(Len(lines) - 1) : InSeq(results, i) = 1

\* two workers hold one task each
C26_Witness ==
    /\ mode = "batch"
    /\ workers = 2
    /\ Holding(1) /\ Holding(2)
    /\ cur[1].lineIdx # cur[2].lineIdx

\* ------------------------------------------------------ cache and workers
\* the file holds a decodable entry
Valid(f) == f.exists /\ f.readable /\ Unmarshal(f.data).ok

\* C23: a cache entry written during a run is never changed or removed for
\* the rest of the run. The cache of a batch starts empty, so that a valid
\* file is an entry written by a successful Set of this run: no step changes
\* it, and every later Get of the key returns its value.
C23_EntryNeverChanges ==
    [][\A k \in KeySet : Valid(cache[k]) => cache'[k] = cache[k]]_vars

\* C30: within one batch, with caching enabled, at least one worker and a
\* provider that answers the key's query with success, the records of one
\* cache key cause at most one external call for that key.
C30_OneCallPerKey ==
    (mode = "batch" /\ cacheEnabled /\ stable /\ workers >= 1) =>
        \A k \in BagToSet(issued) :
            Interpret(TrueResponse(k[1], k[2])).store => CopiesIn(k, issued) <= 1

\* ------------------------------------------------------- the sleep of Wait
\* C27: when the log is at the limit Wait sleeps once, for timeFrame -
\* (now - oldest), and re-filters the log after waking: then fewer than limit
\* timestamps are retained and the new one is appended. While a caller
\* sleeps it holds the mutex and nobody else changes the log, so that the
\* single check never lets the log grow beyond limit.
C27_SleepOnceThenBelowLimit ==
    /\ [](\A w \in Procs : pc[w] = "sleep" =>
            /\ mu = w
            /\ Len(calls) >= limit
            /\ wakeAt[w] = calls[1] + timeFrame
            /\ clock >= wakeAt[w] => Len(FilterCalls(calls, clock)) < limit)
    /\ [][/\ Len(calls') <= limit
          /\ \A w \in Procs : pc[w] = "sleep" =>
               \/ pc'[w] = "sleep" /\ calls' = calls
               \/ /\ pc'[w] = "call"
                  /\ Len(FilterCalls(calls, clock)) < limit
                  /\ calls' = Append(FilterCalls(calls, clock), clock)]_vars

\* a sleeper's time is up while another caller waits for the mutex
C27_Witness ==
    /\ mode = "limiter"
    /\ limit = 2
    /\ \E w, v \in Procs :
         /\ pc[w] = "sleep" /\ clock >= wakeAt[w]
         /\ pc[v] = "wait"

\* C28: every Wait call eventually returns, for limit >= 1 and any number
\* of concurrent callers, when time advances and the mutex is granted fairly;
\* the sleep of one call lasts at most timeFrame.
C28_WaitReturns ==
    /\ \A w \in Procs : (pc[w] \in {"wait", "sleep"}) ~> (pc[w] = "call")
    /\ [](\A w \in Procs : pc[w] = "sleep" => wakeAt[w] - clock <= timeFrame)

\* with limit 1 three calls have returned, each a time frame after the other
C28_Witness ==
    /\ mode = "limiter"
    /\ limit = 1
    /\ Len(admitted) = 3
    /\ admitted[2] >= admitted[1] + timeFrame
    /\ admitted[3] >= admitted[2] + timeFrame
    /\ \A w \in Procs : pc[w] \in {"idle", "call"}

\* ------------------------------------------------ the pass and its history
\* C24: SelectBestMatch on an empty candidate list returns the empty label
\* (whatever the history), and the selector pass leaves the history, and the
\* record, unchanged for every record that has no candidates, failed records
\* included.
C24_NoCandidatesNoUpdate ==
    /\ [](SelectBestMatch(history, <<>>) = NoLabel)
    /\ [][(selIdx' = selIdx + 1 /\ Len(results[selIdx'].matches) = 0) =>
              (history' = history /\ results' = results)]_vars

\* the pass has gone over a failed record after a record that left a label in
\* the history
C24_Witness ==
    /\ mode = "batch"
    /\ mainPc = "select"
    /\ selIdx = 2
    /\ results[1].matches # <<>>
    /\ results[2].matches = <<>> /\ results[2].err # NilErr
    /\ history = <<results[1].vegreferanse>>

\* C29 (as amended): during the selector pass the history receives exactly
\* one append, of the selected label, for every record that has at least one
\* candidate and whose selected label is not empty, and none for any other
\* record or at any other step.
C29_OneAppendPerSelection ==
    [][/\ selIdx' = selIdx => history' = history
       /\ selIdx' = selIdx + 1 =>
            LET r == results'[selIdx']
            IN  IF Len(r.matches) > 0 /\ r.vegreferanse # NoLabel
                THEN history' = Append(history, r.vegreferanse)
                ELSE history' = history]_vars

\* the pass has gone over a record whose only candidate has no label and then
\* over a record with a labelled candidate: one append
C29_Witness ==
    /\ mode = "batch"
    /\ mainPc = "select"
    /\ selIdx = 2
    /\ results[1].matches # <<>> /\ results[1].vegreferanse = NoLabel
    /\ results[2].matches # <<>> /\ results[2].vegreferanse # NoLabel
    /\ history = <<results[2].vegreferanse>>

\* C29 as stated: exactly one append for every processed record that has at
\* least one candidate, and no append for any other record.
C29_AsStated ==
    [][selIdx' = selIdx + 1 =>
          LET r == results'[selIdx']
          IN  IF Len(r.matches) > 0
              THEN Len(history') = Len(history) + 1
              ELSE history' = history]_vars

\* ------------------------------------------------------------- the files
\* the run-fatal errors of processFile
ErrOpenInput == Wrap("failed to open input file", Err("open"))
ErrCreateOutput == Wrap("failed to create output file", Err("create"))

\* C21: when processFile returns because the input cannot be opened or the
\* output cannot be created, no task has been dispatched to a worker and no
\* provider call has been made.
C21_FatalBeforeDispatch ==
    fileErr \in {ErrOpenInput, ErrCreateOutput} =>
        /\ queued = 0
        /\ issued = EmptyBag

\* C22: the output file is the input with one added column: its header is
\* the input header plus "Vegreferanse", and it has one row per input data
\* line, in input order, made of the line and the value resolved for it
\* (empty when none), the lines whose processing failed included.
C22_OutputIsEnrichedInput ==
    (mainPc = "returned" /\ fileErr = NilErr) =>
        /\ output.exists
        /\ output.header = Append(Header("ok"), "Vegreferanse")
        /\ Len(output.rows) = Len(lines)
        /\ \A i \in 1..Len(lines) :
              /\ i <= Len(output.rows)
              /\ output.rows[i].line = lines[i]
              /\ output.rows[i].value = results[i].vegreferanse

\* ------------------------------------------------- the selector's history
\* C34: SelectBestMatch never modifies the history: after the call the
\* history is what it was before it, whatever the candidates; a step that
\* changes the history is a call of AddToHistory.
C34_SelectReadsOnly ==
    /\ [](sel.op = "select" => history = sel.hist)
    /\ [][/\ sel'.op = "select" => history' = history
          /\ history' # history => sel'.op = "add"]_vars

\* SelectBestMatch has preferred the second of two candidates because of the
\* history, which is as it was
C34_Witness ==
    /\ mode = "selector"
    /\ sel.op = "select"
    /\ Len(sel.matches) = 2
    /\ sel.label # sel.matches[1].kortform
    /\ history # <<>>
    /\ history = sel.hist

\* C35: the selection depends on the candidates and on the label appended
\* last only: after any sequence of AddToHistory calls a selector with
\* maxHistory = 1 selects what the selector with maxHistory = 10 selects.
C35_LastEntryOnly ==
    sel.op = "select" =>
        /\ sel.hist = HistoryWith(maxHistory, added)
        /\ sel.label = SelectBestMatch(HistoryWith(1, added), sel.matches)

\* the two selectors hold different histories and the history decides
C35_Witness ==
    /\ mode = "history"
    /\ sel.op = "select"
    /\ Len(added) >= 2
    /\ sel.hist # HistoryWith(1, added)
    /\ sel.hist[1] # sel.hist[Len(sel.hist)]
    /\ Len(sel.matches) = 2
    /\ sel.label # sel.matches[1].kortform

\* the label of one of the candidates
IsCandidateLabel(label, matches) ==
    \E j \in 1..Len(matches) : matches[j].kortform = label

\* C37: a step of applyVegreferanseSelector changes nothing but the label of
\* the record it is at, and that only when the record has candidates, to the
\* label of one of them; line index, line, candidates and error of every
\* result stay, and so does the label of a result without candidates.
C37_PassChangesLabelOnly ==
    [][selIdx' = selIdx + 1 =>
          /\ Len(results') = Len(results)
          /\ \A i \in 1..Len(results) :
                /\ results'[i].lineIdx = results[i].lineIdx
                /\ results'[i].line = results[i].line
                /\ results'[i].matches = results[i].matches
                /\ results'[i].err = results[i].err
                /\ (i # selIdx' \/ Len(results[i].matches) = 0) =>
                       results'[i].vegreferanse = results[i].vegreferanse
                /\ (i = selIdx' /\ Len(results[i].matches) > 0) =>
                       IsCandidateLabel(results'[i].vegreferanse, results[i].matches)]_vars

\* the pass has given the second record the label of its second candidate
C37_Witness ==
    /\ mode = "batch"
    /\ mainPc = "select"
    /\ selIdx = 2
    /\ Len(results[2].matches) = 2
    /\ results[2].vegreferanse = results[2].matches[2].kortform
    /\ results[2].vegreferanse # results[2].matches[1].kortform

\* ------------------------------------------------------ the limiter's log
\* C38: with limit >= 1, whenever no call of Wait is in progress the log
\* holds at most limit timestamps, in non-decreasing order, each less than
\* timeFrame older than the newest; and a call of Wait that has read the
\* oldest timestamp found the log non-empty.
C38_LogShape ==
    limit >= 1 =>
        /\ mu = 0 =>
              /\ Len(calls) <= limit
              /\ \A i \in 1..(Len(calls) - 1) : calls[i] <= calls[i + 1]
              /\ \A i \in 1..Len(calls) : calls[Len(calls)] - calls[i] < timeFrame
        /\ \A w \in Procs : pc[w] = "sleep" => calls # <<>>

\* Wait has returned and left a full log of two timestamps, older ones gone
C38_Witness ==
    /\ mode = "limiter"
    /\ mu = 0
    /\ limit = 2
    /\ Len(calls) = 2
    /\ \E w \in Procs : pc[w] = "call" /\ look[w].waits >= 1
    /\ Len(admitted) > Len(calls)

NoReference(line) ==
    \/ Len(line) <= VegreferanseColumn
    \/ TrimSpace(line[VegreferanseColumn + 1]) = ""

\* the provider did not know the reference: not found, an error, or an
\* answer that lacks the reference
Unresolved(line, r) ==
    \/ r.err # "none"
    \/ r.status # StatusOK
    \/ r.body.json # "map"
    \/ r.body.key # TrimSpace(line[VegreferanseColumn + 1])

\* C32: a record whose reference column is missing or blank after trimming
\* is a failure for which the rate limiter is not acquired and the provider
\* is not called; a record whose reference the provider does not resolve
\* (not found, error, answer without the reference) is a failure with no
\* value; and a failure touches no other record: every result keeps its own
\* line, and a record whose reference is resolved to a point has its value.
C32_ReverseFailures ==
    mode = "reverse" =>
        /\ \A w \in Procs :
              pc[w] \in {"wait", "sleep", "call", "ret"} => ~NoReference(cur[w].line)
        /\ \A i \in 1..Len(lines) : NoReference(lines[i]) => answers[i - 1] = NoAnswer
        /\ Len(admitted) <= Cardinality({i \in 1..Len(lines) : ~NoReference(lines[i])})
        /\ BagCardinality(issued) <= Len(admitted)
        /\ mainPc = "done" =>
              /\ Len(results) = Len(lines)
              /\ BagCardinality(issued) =
                     Cardinality({i \in 1..Len(lines) : ~NoReference(lines[i])})
              /\ \A i \in 1..Len(lines) :
                    /\ results[i].lineIdx = i - 1
                    /\ results[i].line = lines[i]
                    /\ (NoReference(lines[i]) \/ Unresolved(lines[i], answers[i - 1])) =>
                          /\ results[i].err # NilErr
                          /\ results[i].vegreferanse = NoLabel
                    /\ (/\ ~NoReference(lines[i])
                        /\ ~Unresolved(lines[i], answers[i - 1])
                        /\ answers[i - 1].body.wkt = WktPoint) =>
                          /\ results[i].err = NilErr
                          /\ results[i].vegreferanse = <<1, 0>>

\* a run of a blank reference and an unknown one has ended: two failures,
\* one provider call
C32_Witness ==
    /\ mode = "reverse"
    /\ mainPc = "done"
    /\ lines = <<(<<"a", " ">>), (<<"a", RefUnknown>>)>>
    /\ answers[1] = RHttp(StatusNotFound, Garbage)
    /\ results[1].err = Err("empty vegreferanse")
    /\ results[2].err = Wrap("API error", Err("vegreferanse not found"))
    /\ BagCardinality(issued) = 1

\* ------------------------------------------------------- the pass, repeated
\* C36: applyVegreferanseSelector is idempotent: applied to the results it
\* has already been applied to, it leaves every label as it is.
C36_PassIdempotent ==
    /\ BatchReturned =>
          applyVegreferanseSelector(applyVegreferanseSelector(results)) =
              applyVegreferanseSelector(results)
    /\ mainPc = "done" => applyVegreferanseSelector(results) = results

\* the pass has ended and has moved the second record off its first candidate
C36_Witness ==
    /\ mode = "batch"
    /\ mainPc = "done"
    /\ Len(results) = 2
    /\ Len(results[1].matches) > 0
    /\ Len(results[2].matches) = 2
    /\ results[2].vegreferanse # results[2].matches[1].kortform
    /\ Len(history) = 2

\* ------------------------------------------------------------------- Clear
\* C33: after Clear, and until something is stored again, Get of every key
\* is a miss and Stats returns 0 entries and 0 bytes without error; a Set
\* that succeeds is still followed by a hit of the same key with what was
\* stored.
C33_ClearEmpties ==
    /\ (cacheOp.cleared /\ cacheOp.op = "get") => ~cacheOp.found
    /\ (cacheOp.cleared /\ cacheOp.op = "stats") =>
          /\ cacheOp.count = 0
          /\ cacheOp.size = 0
          /\ cacheOp.err = NilErr
    /\ (/\ cacheOp.op = "get"
        /\ cacheOp.prev.op = "set"
        /\ cacheOp.prev.outcome = "written"
        /\ cacheOp.prev.key = cacheOp.key) =>
          /\ cacheOp.found
          /\ cacheOp.matches = cacheOp.prev.matches

====
